---- MODULE Spec2Model ----
(***************************************************************************)
(* A model of the ANSE mediation pipeline: the capability catalog          *)
(* (anse/tool_registry.py), the dispatcher (anse/scheduler.py), the event  *)
(* ledger (anse/world_model.py), the protocol front-end                    *)
(* (anse/agent_bridge.py), the policy evaluator                            *)
(* (anse/safety/permission.py) and the audit sink (anse/audit.py).         *)
(*                                                                         *)
(* The program is a single asyncio event loop: the code between two awaits *)
(* runs atomically, so every action below is one such segment of a         *)
(* coroutine.  Handlers are the catalog's external collaborators: they    *)
(* are coroutines that suspend instead of blocking the loop and that stop *)
(* when cancelled, and their failures are Exception subclasses.            *)
(***************************************************************************)
EXTENDS Integers, Sequences, FiniteSets, TLC

\* ------------------------------------------------------------------ bounds
MaxCalls == 2       \* concurrent execute_call invocations / requests per run
MaxLimit == 2       \* largest calls-per-minute limit configured
MaxLines == 3       \* most lines written to one line-oriented log file
MaxTime == 60       \* new work is submitted up to this clock value
Quantum == 30       \* the clock advances in steps of this many seconds

\* ------------------------------------------------------- program constants
RateWindow == 60          \* scheduler.py:33  "window": 60.0
DefaultTimeout == 30      \* scheduler.py:74  timeout: Optional[float] = 30.0
DefaultMaxEvents == 1000  \* world_model.py:26  max_events: int = 1000

Tasks == 1..MaxCalls
\* The L+1 calls of the rate-limit scenario.
RapidTasks == 1..(MaxLimit + 1)

\* ------------------------------------------------------------ Python values
\* Optional[float]: None is the empty tuple, a number x is <<x>>.
None == <<>>
Some(x) == <<x>>
\* "if timeout:" (scheduler.py:117): None and 0 are falsy.
Truthy(timeout) == timeout # None /\ timeout[1] # 0

\* A JSON value that can arrive as a tool name: a string or a list.
Str(s) == [t |-> "str", s |-> s]
ListVal == [t |-> "list"]
DictVal == [t |-> "dict"]
BytesVal == [t |-> "bytes"]
NullVal == [t |-> "null"]
IntVal(k) == [t |-> "int", n |-> k]
\* A JSON object with the given members.
Dict(members) == [t |-> "dict", v |-> members]
\* dict.get(key, default)
Get(d, key, default) == IF key \in DOMAIN d.v THEN d.v[key] ELSE default
\* hash(): lists and dicts are unhashable.
Hashable(v) == v.t \notin {"list", "dict"}
\* "if not tool:" (agent_bridge.py:92): "" is falsy, a non-empty list is not.
TruthyValue(v) == v.t # "null" /\ ~(v.t = "str" /\ v.s = "")

\* Text is a sequence of chunks; a quote character is always its own chunk.
RECURSIVE Join(_)
Join(chunks) == IF chunks = <<>> THEN "" ELSE Head(chunks) \o Join(Tail(chunks))

Range(seq) == {seq[k] : k \in 1..Len(seq)}

RECURSIVE EscapeQuotes(_)
EscapeQuotes(chunks) ==
    IF chunks = <<>> THEN <<>>
    ELSE (IF Head(chunks) = "'" THEN <<"\\'">> ELSE <<Head(chunks)>>)
         \o EscapeQuotes(Tail(chunks))

\* repr() of a str: double quotes when the text holds ' and no ", single otherwise.
Repr(chunks) ==
    IF "'" \in Range(chunks) /\ "\"" \notin Range(chunks)
    THEN <<"\"">> \o chunks \o <<"\"">>
    ELSE <<"'">> \o EscapeQuotes(chunks) \o <<"'">>

\* An exception: its class name and its single argument (text).
Exc(kind, msg) == [kind |-> kind, msg |-> msg]

\* str(e): KeyError.__str__ is the repr of its argument, the others the text.
PyStr(e) == IF e.kind = "KeyError" THEN Repr(e.msg) ELSE e.msg


\* ------------------------------------------------------------------- state
VARIABLES
    now,              \* the clock read by time.time()
    _tools,           \* ToolRegistry._tools: name -> entry
    _rate_limits,     \* Scheduler._rate_limits: name -> [limit, window, calls]
    _call_counter,    \* Scheduler._call_counter
    events,           \* WorldModel.events, the bounded deque
    max_events,       \* WorldModel.max_events, the deque's maxlen
    call_id_counter,  \* WorldModel.call_id_counter
    appended,         \* history: every append_event: the task, the event given and as stored
    pc,               \* per task: where its coroutine is suspended
    req,              \* per task: the arguments of its execute_call
    started,          \* per task: the clock when its bounded wait began
    ret,              \* per task: what execute_call returned or raised
    steps,            \* history, per task: the statements executed, in order
    fault,            \* history, per task: the exception that ended the call
    request,          \* per task: the params of the call_tool request received
    sent,             \* per task: what the front-end sent back for the request
    policy,           \* PermissionManager.policy, the loaded policy document
    _agent_scopes,    \* PermissionManager._agent_scopes: agent -> granted set
    checked,          \* history: the last check_permission call and its answer
    lastOp,           \* history: the evaluator operation made last
    lastDenied,       \* history: the last check_permission call that was denied
    audit_file,       \* AuditLogger.audit_file: the path, or None
    audit_lines,      \* the lines of the audit file on disk
    loaded,           \* what the last read of the audit log returned or raised
    hashed,           \* history: the args, result and digests of each log_tool_call
    persist_path,     \* WorldModel.persist_path: the mirror's path, or None
    persist_lines,    \* the lines of the ledger's mirror file on disk
    replayed,         \* outcome of load_from_jsonl while it is the ledger's latest change
    sinceClear,       \* history: the events added to the ring since it was empty
    fresh,            \* history: nothing has been done to this ledger instance yet
    answer,           \* the last query of the ledger: its arguments and its result
    connected,        \* per connection: handle_client is in its message loop
    exchange,         \* per connection: the messages read and the responses sent
    latest,           \* history: per name, the arguments of the last register that returned
    catalog_op,       \* history: the last operation on the catalog and its outcome
    quotas,           \* MultiagentEngine.quotas: agent -> AgentQuota
    agents_online,    \* MultiagentEngine.agents_online
    access,           \* history: per agent, the last check_tool_access not yet recorded
    admitted,         \* history: the calls check_tool_access allowed, with their times
    locked            \* history: whether the last engine operation ran inside `async with self.lock`

\* The variables of the dispatcher, the ledger, the catalog and the front-end.
dispatchVars == <<now, _tools, _rate_limits, _call_counter, events, max_events,
                  call_id_counter, appended, pc, req, started, ret, steps,
                  fault, request, sent>>

\* The variables of the policy evaluator.
permVars == <<policy, _agent_scopes, checked, lastOp, lastDenied>>

\* The variables of the audit sink.
auditVars == <<audit_file, audit_lines, loaded, hashed>>

\* The variables of the ledger's durable mirror and of its replay.
storeVars == <<persist_path, persist_lines, replayed, sinceClear, fresh,
               answer>>

\* The variables of the connections of the front-end.
connVars == <<connected, exchange>>

\* The histories of the catalog's operations.
catalogVars == <<latest, catalog_op>>

\* The variables of the isolation layer.
isolationVars == <<quotas, agents_online, access, admitted, locked>>

vars == <<dispatchVars, permVars, auditVars, storeVars, connVars, catalogVars,
         isolationVars>>

\* What an operation of one subsystem leaves alone: the other subsystems.
outsideDispatch == <<permVars, auditVars, storeVars, connVars, catalogVars,
                     isolationVars>>
outsidePerm == <<dispatchVars, auditVars, storeVars, connVars, catalogVars,
                 isolationVars>>
outsideAudit == <<dispatchVars, permVars, storeVars, connVars, catalogVars,
                  isolationVars>>
\* What a ledger operation leaves alone: the dispatcher, catalog and front-end
\* fields, and the other subsystems.
outsideLedger == <<_tools, _rate_limits, _call_counter, pc, req, started, ret,
                   steps, fault, request, sent, permVars, auditVars, connVars,
                   catalogVars, isolationVars>>

\* --------------------------------------------------------------- the ledger
WithTimestamp(event, t) ==
    IF "timestamp" \in DOMAIN event THEN event ELSE event @@ [timestamp |-> t]

WithCallId(event, counter) ==
    IF "call_id" \in DOMAIN event THEN event
    ELSE event @@ [call_id |-> "event-" \o ToString(counter + 1)]

\* A bounded queue that refuses a new entry when it is full.
DequeAppendKeepOldest(q, e, cap) ==
    IF Len(q) >= cap THEN q ELSE q \o <<e>>

\* collections.deque(maxlen=cap).append: the oldest entry is dropped when full.
DequeAppend(q, e, cap) ==
    IF cap = 0 THEN <<>>
    ELSE IF Len(q) >= cap THEN Tail(q) \o <<e>>
    ELSE q \o <<e>>

\* The ledger's fields as one value, threaded through a segment's statements.
Ledger == [events |-> events, call_id_counter |-> call_id_counter,
           appended |-> appended]

\* A ledger that puts each new event in front of the older ones.
AppendEventFront(w, event, t, i) ==
    LET e == WithCallId(WithTimestamp(event, t), w.call_id_counter)
    IN [events |-> <<e>> \o w.events,
        call_id_counter |-> w.call_id_counter,
        appended |-> <<[task |-> i, event |-> e, given |-> event]>> \o w.appended]

\* An append that also stamps the events already in the ring.
AppendEventRestamp(w, event, t, i) ==
    LET e == WithCallId(WithTimestamp(event, t), w.call_id_counter)
        stamped == [k \in DOMAIN w.events |->
                       [w.events[k] EXCEPT !.timestamp = t]]
    IN [events |-> DequeAppend(stamped, e, max_events),
        call_id_counter |-> IF "call_id" \in DOMAIN event
                            THEN w.call_id_counter
                            ELSE w.call_id_counter + 1,
        appended |-> Append(w.appended,
                           [task |-> i, event |-> e, given |-> event])]

\* WorldModel.append_event, called by task i at clock t.
AppendEvent(w, event, t, i) ==
    LET e == WithCallId(WithTimestamp(event, t), w.call_id_counter)
    IN [events |-> DequeAppend(w.events, e, max_events),
        call_id_counter |-> IF "call_id" \in DOMAIN event
                            THEN w.call_id_counter
                            ELSE w.call_id_counter + 1,
        appended |-> Append(w.appended,
                           [task |-> i, event |-> e, given |-> event])]

SetLedger(w) ==
    /\ events' = w.events
    /\ call_id_counter' = w.call_id_counter
    /\ appended' = w.appended

\* -------------------------------------------------------------- the catalog
ToolNames == {"echo", "ghost"}
Registered == {"echo"}

\* "name not in self._tools" for a hashable name.
HasTool(tool) == tool.t = "str" /\ tool.s \in DOMAIN _tools

\* KeyError(f"Tool '{name}' not found")
NotFoundError(tool) ==
    Exc("KeyError", <<"Tool ", "'", tool.s, "'", " not found">>)

\* func(**args) with args that is no mapping.
NotMappingError ==
    Exc("TypeError", <<"argument after ** must be a mapping, not list">>)

\* ----------------------------------------------------------- the dispatcher
\* "tool_name not in self._rate_limits" hashes the name first.
UnhashableError == Exc("TypeError", <<"unhashable type: ", "'", "list", "'">>)

HasLimit(rl, tool) == tool.t = "str" /\ tool.s \in DOMAIN rl

\* A rate check that counts the call it is checking.
PruneCallsStamping(rl, tool, t) ==
    IF ~HasLimit(rl, tool) THEN rl
    ELSE [rl EXCEPT ![tool.s].calls =
             Append(SelectSeq(@, LAMBDA x : x > t - rl[tool.s].window), t)]

\* limit_info["calls"] = [t for t in limit_info["calls"] if t > window_start]
PruneCalls(rl, tool, t) ==
    IF ~HasLimit(rl, tool) THEN rl
    ELSE [rl EXCEPT ![tool.s].calls =
             SelectSeq(@, LAMBDA x : x > t - rl[tool.s].window)]

\* A limiter that lets a call through when the window is exactly full.
CheckRateLimitOffByOne(rl, tool) ==
    IF ~HasLimit(rl, tool) THEN TRUE
    ELSE ~(Len(rl[tool.s].calls) > rl[tool.s].limit)

\* Scheduler._check_rate_limit on the pruned window.
CheckRateLimit(rl, tool) ==
    IF ~HasLimit(rl, tool) THEN TRUE
    ELSE ~(Len(rl[tool.s].calls) >= rl[tool.s].limit)

\* A recorder that stamps every capability's window.
RecordCallEveryWindow(rl, tool, t) ==
    [n \in DOMAIN rl |-> [rl[n] EXCEPT !.calls = Append(@, t)]]

\* Scheduler._record_call
RecordCall(rl, tool, t) ==
    IF HasLimit(rl, tool)
    THEN [rl EXCEPT ![tool.s].calls = Append(@, t)]
    ELSE rl

AttemptEvent(agent_id, call_id, tool, args) ==
    [type |-> "tool_call", agent_id |-> agent_id, call_id |-> call_id,
     tool |-> tool, args |-> args]

ResultEvent(agent_id, call_id, result) ==
    [type |-> "tool_result", agent_id |-> agent_id, call_id |-> call_id,
     result |-> result]

ResultOk(call_id, data) ==
    [status |-> "ok", call_id |-> call_id, result |-> data]

ResultError(call_id, error) ==
    [status |-> "error", error |-> error, call_id |-> call_id]

\* Except clauses that handle the two named exception classes only.
CatchesNamedOnly(e) == e.kind \in {"TimeoutError", "KeyError"}

\* The except clauses of execute_call: TimeoutError, KeyError, then Exception.
Catches(e) == TRUE

\* Except clauses that report an expiry like any other exception.
NormalizeNoTimeoutClause(e, call_id) ==
    IF e.kind = "KeyError"
    THEN ResultError(call_id, <<"tool_not_found", ": ">> \o PyStr(e))
    ELSE ResultError(call_id, <<e.kind, ": ">> \o PyStr(e))

\* The result each except clause builds.
Normalize(e, call_id) ==
    IF e.kind = "TimeoutError" THEN ResultError(call_id, <<"timeout">>)
    ELSE IF e.kind = "KeyError"
         THEN ResultError(call_id, <<"tool_not_found", ": ">> \o PyStr(e))
         ELSE ResultError(call_id, <<e.kind, ": ">> \o PyStr(e))

Returned(result) == [how |-> "returned", result |-> result]
Raised(e) == [how |-> "raised", exc |-> e]
NoOutcome == [how |-> "none"]

NoFault == [origin |-> "none"]
Fault(origin, e) == [origin |-> origin, exc |-> e]

InFlight == {i \in DOMAIN pc : pc[i] \in {"dispatched", "running"}}


\* --------------------------------------------------------- the front-end reply
\* json.dumps(response): bytes in a handler's result cannot be serialised.
JsonSerializable(response) ==
    ~("result" \in DOMAIN response /\ response.result = BytesVal)

NotSerializableError ==
    Exc("TypeError", <<"Object of type bytes is not JSON serializable">>)

\* params.get on a params value that is a JSON list.
NoGetError ==
    Exc("AttributeError", <<"'", "list", "'", " object has no attribute ",
                            "'", "get", "'">>)

\* handle_client's "except Exception" reply.
InternalError(e) == [error |-> <<"internal_error">>, message |-> PyStr(e)]

\* What handle_client sends once _handle_request has returned or raised.
Reply(outcome) ==
    IF outcome.how = "raised" THEN InternalError(outcome.exc)
    ELSE IF ~JsonSerializable(outcome.result)
         THEN InternalError(NotSerializableError)
         ELSE outcome.result

NoReply == [none |-> TRUE]

\* --------------------------------------------------------------- execute_call
\* execute_call has returned or raised: the task ends, and for a front-end
\* request the reply is sent.
Settle(i, via, outcome) ==
    /\ pc' = [pc EXCEPT ![i] = "done"]
    /\ ret' = [ret EXCEPT ![i] = outcome]
    /\ sent' = [sent EXCEPT ![i] = IF via = "bridge" THEN Reply(outcome) ELSE @]

\* execute_call up to its first await (scheduler.py:89-118).
ExecuteCallStart(i, via, agent_id, call_id, tool, args, timeout) ==
    LET w1 == AppendEvent(Ledger, AttemptEvent(agent_id, call_id, tool, args),
                          now, i)
        rl1 == PruneCalls(_rate_limits, tool, now)
        rejected == ResultError(call_id, <<"rate_limited">>)
        w2 == AppendEvent(w1, ResultEvent(agent_id, call_id, rejected), now, i)
    IN  /\ _call_counter' = _call_counter + 1
        /\ req' = [req EXCEPT ![i] =
                      [via |-> via, agent_id |-> agent_id, call_id |-> call_id,
                       tool |-> tool, args |-> args, timeout |-> timeout]]
        /\ started' = [started EXCEPT ![i] = now]
        /\ IF ~Hashable(tool)
           THEN /\ SetLedger(w1)
                /\ UNCHANGED _rate_limits
                /\ steps' = [steps EXCEPT ![i] = <<"attempt", "rate_check">>]
                /\ fault' = [fault EXCEPT ![i] =
                                Fault("rate_check", UnhashableError)]
                /\ Settle(i, via, Raised(UnhashableError))
           ELSE /\ _rate_limits' = rl1
                /\ UNCHANGED fault
                /\ IF ~CheckRateLimit(rl1, tool)
                   THEN /\ SetLedger(w2)
                        /\ steps' = [steps EXCEPT ![i] =
                                        <<"attempt", "rate_check", "result">>]
                        /\ Settle(i, via, Returned(rejected))
                   ELSE /\ SetLedger(w1)
                        /\ steps' = [steps EXCEPT ![i] =
                                        <<"attempt", "rate_check">>]
                        /\ pc' = [pc EXCEPT ![i] = "dispatched"]
                        /\ UNCHANGED <<ret, sent>>
        /\ UNCHANGED <<now, _tools, max_events>>

\* An exception e reaches the try block of execute_call (scheduler.py:126-147).
Fail(i, origin, e) ==
    LET r == Normalize(e, req[i].call_id)
        w == AppendEvent(Ledger, ResultEvent(req[i].agent_id, req[i].call_id, r),
                         now, i)
    IN  /\ fault' = [fault EXCEPT ![i] = Fault(origin, e)]
        /\ IF Catches(e)
           THEN /\ SetLedger(w)
                /\ steps' = [steps EXCEPT ![i] = Append(@, "result")]
                /\ Settle(i, req[i].via, Returned(r))
           ELSE /\ UNCHANGED <<events, call_id_counter, appended, steps>>
                /\ Settle(i, req[i].via, Raised(e))

\* Tasks are interchangeable: they are taken in index order.
CanStart(i) ==
    /\ pc[i] = "idle"
    /\ \A j \in DOMAIN pc : j < i => pc[j] # "idle"
    /\ now <= MaxTime

\* Call ids are chosen by the caller and need not be unique: every other task
\* reuses an id.
CallIdOf(i) == IF i % 2 = 1 THEN "c1" ELSE "c2"

TimeoutValues == {None, Some(0), Some(DefaultTimeout)}

\* A caller awaits scheduler.execute_call(agent_id, call_id, tool, args, timeout).
Submit(i) ==
    /\ CanStart(i)
    /\ \E name \in ToolNames, timeout \in {None, Some(DefaultTimeout)} :
          ExecuteCallStart(i, "direct", "a1", CallIdOf(i), Str(name), DictVal,
                           timeout)
    /\ UNCHANGED request
    /\ UNCHANGED outsideDispatch

\* ToolRegistry.call begins (tool_registry.py:80-84): lookup, then the handler.
Invoke(i) ==
    /\ pc[i] = "dispatched"
    /\ IF ~HasTool(req[i].tool)
       THEN Fail(i, "lookup", NotFoundError(req[i].tool))
       ELSE IF req[i].args # DictVal
       THEN Fail(i, "args", NotMappingError)
       ELSE /\ pc' = [pc EXCEPT ![i] = "running"]
            /\ steps' = [steps EXCEPT ![i] = Append(@, "invoke")]
            /\ UNCHANGED <<events, call_id_counter, appended, ret, fault, sent>>
    /\ UNCHANGED <<now, _tools, _rate_limits, _call_counter, max_events, req,
                   started, request>>
    /\ UNCHANGED outsideDispatch

\* The handler returns data: scheduler.py:122-124 and 137-147.
HandlerReturns(i, data) ==
    LET r == ResultOk(req[i].call_id, data)
        w == AppendEvent(Ledger, ResultEvent(req[i].agent_id, req[i].call_id, r),
                         now, i)
    IN  /\ pc[i] = "running"
        /\ _rate_limits' = RecordCall(_rate_limits, req[i].tool, now)
        /\ SetLedger(w)
        /\ steps' = [steps EXCEPT ![i] = @ \o <<"record", "result">>]
        /\ Settle(i, req[i].via, Returned(r))
        /\ UNCHANGED <<now, _tools, _call_counter, max_events, req, started,
                       fault, request>>
        /\ UNCHANGED outsideDispatch

HandlerExceptions ==
    { Exc("KeyError", <<"k">>), Exc("TimeoutError", <<>>),
      Exc("ValueError", <<"bad">>) }

\* The handler raises.
HandlerRaises(i, e) ==
    /\ pc[i] = "running"
    /\ Fail(i, "handler", e)
    /\ UNCHANGED <<now, _tools, _rate_limits, _call_counter, max_events, req,
                   started, request>>
    /\ UNCHANGED outsideDispatch

\* asyncio.wait_for gives up (scheduler.py:118): only a truthy timeout is armed.
Expire(i) ==
    /\ pc[i] = "running"
    /\ Truthy(req[i].timeout)
    /\ now >= started[i] + req[i].timeout[1]
    /\ Fail(i, "wait_for", Exc("TimeoutError", <<>>))
    /\ UNCHANGED <<now, _tools, _rate_limits, _call_counter, max_events, req,
                   started, request>>
    /\ UNCHANGED outsideDispatch

\* Time passes.  Beyond MaxTime only while an armed wait has not expired.
Tick ==
    /\ \/ now < MaxTime
       \/ \E i \in DOMAIN pc : /\ pc[i] \in {"dispatched", "running"}
                               /\ Truthy(req[i].timeout)
                               /\ now < started[i] + req[i].timeout[1]
    /\ now' = now + Quantum
    /\ UNCHANGED <<_tools, _rate_limits, _call_counter, events, max_events,
                   call_id_counter, appended, pc, req, started, ret, steps,
                   fault, request, sent>>
    /\ UNCHANGED outsideDispatch

\* ------------------------------------------------------------ the front-end
\* f"agent-{id(websocket)}": one identifier per connection.
ConnAgent(i) == "agent-" \o ToString(i)

\* The params of the call_tool requests a client sends on connection i.
ParamShapes(i) ==
    { ListVal,
      Dict(<<>>),
      Dict([call_id |-> CallIdOf(i), tool |-> Str("")]),
      Dict([call_id |-> CallIdOf(i), tool |-> ListVal]),
      Dict([call_id |-> CallIdOf(i), tool |-> Str("ghost")]),
      Dict([call_id |-> CallIdOf(i), tool |-> Str("echo")]),
      Dict([call_id |-> CallIdOf(i), tool |-> Str("echo"), agent_id |-> "a1"]),
      Dict([tool |-> Str("echo"), args |-> ListVal]) }

\* _handle_request returns or raises before execute_call is reached.
ReplyEarly(i, outcome) ==
    /\ pc' = [pc EXCEPT ![i] = "done"]
    /\ sent' = [sent EXCEPT ![i] = Reply(outcome)]
    /\ UNCHANGED <<now, _tools, _rate_limits, _call_counter, events, max_events,
                   call_id_counter, appended, req, started, ret, steps, fault>>

\* A front-end that passes the connection's identifier to execute_call whatever
\* the params declare.
CallToolIgnoresOverride(i) ==
    /\ CanStart(i)
    /\ \E params \in ParamShapes(i) :
          /\ request' = [request EXCEPT ![i] = params]
          /\ IF params.t # "dict"
             THEN ReplyEarly(i, Raised(NoGetError))
             ELSE LET call_id == Get(params, "call_id", "unknown")
                      tool == Get(params, "tool", NullVal)
                      args == Get(params, "args", DictVal)
                  IN  IF ~TruthyValue(tool)
                      THEN ReplyEarly(i, Returned(
                               [error |-> <<"missing_tool_name">>,
                                call_id |-> call_id]))
                      ELSE ExecuteCallStart(i, "bridge", ConnAgent(i),
                                            call_id, tool, args,
                                            Some(DefaultTimeout))
    /\ UNCHANGED outsideDispatch

\* handle_client reads a call_tool message (agent_bridge.py:49-53) and
\* _handle_request runs to execute_call's first await (agent_bridge.py:85-101).
CallTool(i) ==
    /\ CanStart(i)
    /\ \E params \in ParamShapes(i) :
          /\ request' = [request EXCEPT ![i] = params]
          /\ IF params.t # "dict"
             THEN ReplyEarly(i, Raised(NoGetError))
             ELSE LET agent_id_override == Get(params, "agent_id", ConnAgent(i))
                      call_id == Get(params, "call_id", "unknown")
                      tool == Get(params, "tool", NullVal)
                      args == Get(params, "args", DictVal)
                  IN  IF ~TruthyValue(tool)
                      THEN ReplyEarly(i, Returned(
                               [error |-> <<"missing_tool_name">>,
                                call_id |-> call_id]))
                      ELSE ExecuteCallStart(i, "bridge", agent_id_override,
                                            call_id, tool, args,
                                            Some(DefaultTimeout))
    /\ UNCHANGED outsideDispatch

\* ------------------------------------------------------ the policy evaluator
Scopes == {"camera", "microphone"}
AgentIds == {"a1", "a2"}

\* The policy documents a session may be started with (the keys read by
\* check_permission and register_agent; a missing key reads as the empty list).
Policies == [default_scopes : {{}, {"camera"}}, sensitive_scopes : SUBSET Scopes]

DefaultPolicy == [default_scopes |-> {}, sensitive_scopes |-> {"camera"}]

\* register_agent(agent_id, scopes) on the map m: scopes None means the defaults.
RegisterAgentIn(m, agent_id, scopes) ==
    LET granted == IF scopes = None THEN policy.default_scopes ELSE scopes[1]
    IN  [a \in DOMAIN m \cup {agent_id} |->
            IF a = agent_id THEN granted ELSE m[a]]

\* "if agent_id not in self._agent_scopes: self.register_agent(agent_id)"
EnsureAgent(m, agent_id) ==
    IF agent_id \in DOMAIN m THEN m ELSE RegisterAgentIn(m, agent_id, None)

Allowed == [allowed |-> TRUE, reason |-> None]
Denied(reason) == [allowed |-> FALSE, reason |-> Some(reason)]

\* A check that gates every scope the agent does not hold, sensitive or not.
CheckScopeAlwaysGated(agent_scopes, required_scope) ==
    IF required_scope = None THEN Allowed
    ELSE IF required_scope[1] \notin agent_scopes
         THEN Denied(<<"Missing required scope: ", required_scope[1]>>)
         ELSE Allowed

\* The decision of check_permission (permission.py:57-65).
CheckScope(agent_scopes, required_scope) ==
    IF required_scope = None THEN Allowed
    ELSE IF /\ required_scope[1] \in policy.sensitive_scopes
            /\ required_scope[1] \notin agent_scopes
         THEN Denied(<<"Missing required scope: ", required_scope[1]>>)
         ELSE Allowed

\* The scopes an agent holds: a new agent holds the policy's defaults.
GrantedSet(agent_id) ==
    IF agent_id \in DOMAIN _agent_scopes THEN _agent_scopes[agent_id]
    ELSE policy.default_scopes

Op(op, agent_id, scope) == [op |-> op, agent |-> agent_id, scope |-> scope]
NoOp == Op("none", "", "")
NoCheck == [agent |-> ""]

RegisterAgent(agent_id, scopes) ==
    /\ _agent_scopes' = RegisterAgentIn(_agent_scopes, agent_id, scopes)
    /\ lastOp' = Op("register", agent_id, "")
    /\ UNCHANGED <<policy, checked, lastDenied>>
    /\ UNCHANGED outsidePerm

GrantScope(agent_id, scope) ==
    /\ _agent_scopes' =
          [EnsureAgent(_agent_scopes, agent_id) EXCEPT ![agent_id] = @ \cup {scope}]
    /\ lastOp' = Op("grant", agent_id, scope)
    /\ UNCHANGED <<policy, checked, lastDenied>>
    /\ UNCHANGED outsidePerm

RevokeScope(agent_id, scope) ==
    /\ _agent_scopes' =
          IF agent_id \in DOMAIN _agent_scopes
          THEN [_agent_scopes EXCEPT ![agent_id] = @ \ {scope}]
          ELSE _agent_scopes
    /\ lastOp' = Op("revoke", agent_id, scope)
    /\ UNCHANGED <<policy, checked, lastDenied>>
    /\ UNCHANGED outsidePerm

CheckPermission(agent_id, tool_name, required_scope) ==
    LET m == EnsureAgent(_agent_scopes, agent_id)
        verdict == CheckScope(m[agent_id], required_scope)
    IN  /\ _agent_scopes' = m
        /\ checked' = [agent |-> agent_id, tool |-> tool_name,
                       required |-> required_scope,
                       held |-> GrantedSet(agent_id),
                       answer |-> verdict, after |-> lastOp]
        /\ lastDenied' = IF verdict.allowed THEN lastDenied
                         ELSE Op("check", agent_id, required_scope[1])
        /\ lastOp' = Op("check", agent_id, "")
        /\ UNCHANGED policy
        /\ UNCHANGED outsidePerm

\* PermissionManager.__init__: the policy is loaded, no agent is known.
InitPermissions(policies) ==
    /\ policy \in policies
    /\ _agent_scopes = [a \in {} |-> {}]
    /\ checked = NoCheck
    /\ lastOp = NoOp
    /\ lastDenied = NoOp

\* ------------------------------------------------- line-oriented log files
\* A line written whole by f.write(json.dumps(value) + "\n").
JsonLine(value) == [text |-> "json", value |-> value]
\* The beginning of such a line: the write was cut short.
PartialLine(value) == [text |-> "partial", value |-> value]
BlankLine == [text |-> "blank"]
\* A partial line that a later write has continued and ended.
GarbledLine == [text |-> "garbled"]

\* open(path, "a") ... f.write(line): text written after a partial line
\* continues and ends that line, which stays unparsable.
AppendLine(lines, value) ==
    IF lines # <<>> /\ lines[Len(lines)].text = "partial"
    THEN [lines EXCEPT ![Len(lines)] = GarbledLine]
    ELSE Append(lines, JsonLine(value))

JSONDecodeError == Exc("JSONDecodeError", <<"Expecting value">>)

\* "if line.strip(): json.loads(line)" over the lines in order: the values
\* parsed before the first line json.loads rejects, and whether one was met.
RECURSIVE ParseLines(_)
ParseLines(lines) ==
    IF lines = <<>> THEN [values |-> <<>>, error |-> FALSE]
    ELSE IF Head(lines).text = "blank" THEN ParseLines(Tail(lines))
    ELSE IF Head(lines).text \in {"partial", "garbled"}
         THEN [values |-> <<>>, error |-> TRUE]
    ELSE LET rest == ParseLines(Tail(lines))
         IN  [values |-> <<Head(lines).value>> \o rest.values,
              error |-> rest.error]

\* --------------------------------------------------------- the audit sink
AuditPath == "audit.jsonl"

\* A dict keeps its items in insertion order; a set iterates in the order of
\* its hash table, which depends on the insertions made and on the hash seed.
PyDict(items) == [t |-> "dict", items |-> items]
PySet(order) == [t |-> "set", order |-> order]
Item(k, v) == [k |-> k, v |-> v]

\* The keys of the structures hashed, as sorted() orders them.
SortedKeys == <<"a", "b">>

RECURSIVE SortItems(_, _)
SortItems(items, keys) ==
    IF keys = <<>> THEN <<>>
    ELSE SelectSeq(items, LAMBDA it : it.k = Head(keys))
         \o SortItems(items, Tail(keys))

RECURSIVE StrElements(_)
StrElements(order) ==
    IF order = <<>> THEN ""
    ELSE ToString(Head(order))
         \o (IF Len(order) > 1 THEN ", " ELSE "")
         \o StrElements(Tail(order))

\* json.dumps(data, sort_keys=True, default=str): a dict is written with its
\* keys sorted, a value json cannot encode as the JSON string of its str().
RECURSIVE JsonDumps(_)
RECURSIVE DumpItems(_)
DumpItems(items) ==
    IF items = <<>> THEN ""
    ELSE "\"" \o Head(items).k \o "\": " \o JsonDumps(Head(items).v)
         \o (IF Len(items) > 1 THEN ", " ELSE "")
         \o DumpItems(Tail(items))

JsonDumps(v) ==
    CASE v.t = "int" -> ToString(v.n)
      [] v.t = "dict" -> "{" \o DumpItems(SortItems(v.items, SortedKeys)) \o "}"
      [] v.t = "set" -> "\"{" \o StrElements(v.order) \o "}\""

\* hashlib.sha256(text).hexdigest()[:8], taken as one-to-one on the texts met.
Sha256Prefix(text) == [sha256 |-> text, hexdigits |-> 8]

\* AuditLogger._hash_dict (audit.py:154-157).
HashDict(data) == Sha256Prefix(JsonDumps(data))

\* The log_entry of log_tool_call (audit.py:72-84).
ToolCallEntry(agent_id, call_id, tool, args, result, status, t) ==
    [timestamp |-> t, agent_id |-> agent_id, call_id |-> call_id, tool |-> tool,
     args_hash |-> HashDict(args), result_hash |-> HashDict(result),
     status |-> status, duration_ms |-> 0]

\* The log_entry of log_permission_denied (audit.py:140-147).
DeniedEntry(agent_id, call_id, tool, reason, t) ==
    [timestamp |-> t, agent_id |-> agent_id, call_id |-> call_id, tool |-> tool,
     event_type |-> "permission_denied", reason |-> reason]

\* _write_audit_entry: nothing is written without an audit file.
WriteAuditEntry(entry) ==
    audit_lines' = IF audit_file = None THEN audit_lines
                   ELSE AppendLine(audit_lines, entry)

\* The outcome of a read of the audit file is kept until the file is written.
NoLoad == [how |-> "none"]

LogToolCall(agent_id, call_id, tool, args, result, status) ==
    /\ Len(audit_lines) < MaxLines
    /\ Len(hashed) < MaxLines
    /\ WriteAuditEntry(ToolCallEntry(agent_id, call_id, tool, args, result,
                                     status, now))
    /\ hashed' = Append(hashed, [args |-> args, result |-> result,
                                 args_hash |-> HashDict(args),
                                 result_hash |-> HashDict(result)])
    /\ loaded' = NoLoad
    /\ UNCHANGED audit_file
    /\ UNCHANGED outsideAudit

LogPermissionDenied(agent_id, call_id, tool, reason) ==
    /\ Len(audit_lines) < MaxLines
    /\ WriteAuditEntry(DeniedEntry(agent_id, call_id, tool, reason, now))
    /\ loaded' = NoLoad
    /\ UNCHANGED <<audit_file, hashed>>
    /\ UNCHANGED outsideAudit

\* The process stops while _write_audit_entry is writing: the file keeps the
\* beginning of the line.
TornAuditWrite(agent_id, call_id, tool, status) ==
    /\ audit_file # None
    /\ Len(audit_lines) < MaxLines
    /\ audit_lines # <<>> => audit_lines[Len(audit_lines)].text # "partial"
    /\ audit_lines' =
          Append(audit_lines,
                 PartialLine(ToolCallEntry(agent_id, call_id, tool, PyDict(<<>>),
                                           PyDict(<<>>), status, now)))
    /\ loaded' = NoLoad
    /\ UNCHANGED <<audit_file, hashed>>
    /\ UNCHANGED outsideAudit

\* load_audit_log (audit.py:170-184): json.loads raises JSONDecodeError, which
\* "except IOError" does not catch.
LoadAuditLogResult ==
    IF audit_file = None THEN Returned(<<>>)
    ELSE LET parsed == ParseLines(audit_lines)
         IN  IF parsed.error THEN Raised(JSONDecodeError)
             ELSE Returned(parsed.values)

LoadAuditLog ==
    /\ loaded' = [op |-> "load_audit_log", agent |-> ""] @@ LoadAuditLogResult
    /\ UNCHANGED <<audit_file, audit_lines, hashed>>
    /\ UNCHANGED outsideAudit

\* The counts of get_agent_stats (audit.py:189-194).
AgentStats(entries, agent_id) ==
    LET mine == SelectSeq(entries, LAMBDA e : e.agent_id = agent_id)
    IN  [agent_id |-> agent_id,
         total_calls |-> Len(SelectSeq(mine, LAMBDA e : "tool" \in DOMAIN e)),
         successful |-> Len(SelectSeq(mine, LAMBDA e :
                           "status" \in DOMAIN e /\ e.status = "success")),
         failed |-> Len(SelectSeq(mine, LAMBDA e :
                       "status" \in DOMAIN e /\ e.status = "error")),
         denied |-> Len(SelectSeq(mine, LAMBDA e :
                       /\ "event_type" \in DOMAIN e
                       /\ e.event_type = "permission_denied"))]

GetAgentStats(agent_id) ==
    /\ loaded' =
          [op |-> "get_agent_stats", agent |-> agent_id] @@
          (IF LoadAuditLogResult.how = "raised" THEN LoadAuditLogResult
           ELSE Returned(AgentStats(LoadAuditLogResult.result, agent_id)))
    /\ UNCHANGED <<audit_file, audit_lines, hashed>>
    /\ UNCHANGED outsideAudit

\* AuditLogger.__init__ over a file not written yet.
InitAudit(paths) ==
    /\ audit_file \in paths
    /\ audit_lines = <<>>
    /\ loaded = NoLoad
    /\ hashed = <<>>

\* ------------------------------------------------ the ledger's operations
MirrorPath == "events.jsonl"

TupleVal == [t |-> "tuple"]

\* Events handed to append_event by callers other than the dispatcher.
EventShapes ==
    { [type |-> "observation", agent_id |-> "a1"],
      [type |-> "observation", agent_id |-> "a2", call_id |-> "c1",
       timestamp |-> 5, data |-> TupleVal],
      [type |-> "observation", agent_id |-> "a2", data |-> BytesVal] }

\* json.dumps(event) raises TypeError when the event holds bytes.
Dumpable(event) ==
    /\ ~("data" \in DOMAIN event /\ event.data = BytesVal)
    /\ ~(/\ "result" \in DOMAIN event
         /\ "result" \in DOMAIN event.result
         /\ event.result.result = BytesVal)

\* json.loads(json.dumps(event)): a tuple comes back as a list.
AsJson(event) ==
    [f \in DOMAIN event |->
        IF f = "data" /\ event[f] = TupleVal THEN ListVal ELSE event[f]]

\* The events appended by append_event so far, in order.
AppendedEvents == [k \in 1..Len(appended) |-> appended[k].event]

NoReplay == [how |-> "none"]
NoAnswer == [op |-> "none"]

\* Additions to the ring are counted up to this many.
MaxAdds == MaxLines + 1

\* WorldModel.append_event(event) by a direct caller (world_model.py:43-74):
\* the ring is extended first; json.dumps in _persist_event raises TypeError
\* through "except IOError".
AppendOp(event) ==
    LET w == AppendEvent(Ledger, event, now, 0)
        e == w.appended[Len(w.appended)].event
    IN  /\ Len(appended) < MaxLines
        /\ Len(sinceClear) < MaxAdds
        /\ SetLedger(w)
        /\ sinceClear' = Append(sinceClear, e)
        /\ persist_lines' =
              IF persist_path # None /\ Dumpable(e)
              THEN AppendLine(persist_lines, AsJson(e))
              ELSE persist_lines
        /\ fresh' = FALSE
        /\ replayed' = NoReplay
        /\ UNCHANGED <<now, max_events, persist_path>>
        /\ UNCHANGED <<answer, outsideLedger>>

\* The process stops while _persist_event is writing: the mirror keeps the
\* beginning of the line, and the next session starts on that file.
TornMirrorWrite(event, cap) ==
    LET w == AppendEvent(Ledger, event, now, 0)
        e == w.appended[Len(w.appended)].event
    IN  /\ persist_path # None
        /\ Dumpable(e)
        /\ Len(appended) < MaxLines
        /\ persist_lines # <<>> =>
              persist_lines[Len(persist_lines)].text # "partial"
        /\ persist_lines' = Append(persist_lines, PartialLine(AsJson(e)))
        /\ events' = <<>>
        /\ call_id_counter' = 0
        /\ max_events' = cap
        /\ sinceClear' = <<>>
        /\ fresh' = TRUE
        /\ replayed' = NoReplay
        /\ UNCHANGED <<now, appended, persist_path>>
        /\ UNCHANGED <<answer, outsideLedger>>

RECURSIVE DequeExtend(_, _, _)
DequeExtend(q, values, cap) ==
    IF values = <<>> THEN q
    ELSE DequeExtend(DequeAppend(q, Head(values), cap), Tail(values), cap)

\* WorldModel.load_from_jsonl(path) (world_model.py:114-136): the events parsed
\* before a line json.loads rejects are already in the ring when it raises.
LoadFromJsonl ==
    LET parsed == ParseLines(persist_lines)
    IN  /\ Len(sinceClear) + Len(parsed.values) <= MaxAdds
        /\ events' = DequeExtend(events, parsed.values, max_events)
        /\ sinceClear' = sinceClear \o parsed.values
        /\ replayed' =
              [fresh |-> fresh] @@
              (IF parsed.error THEN Raised(JSONDecodeError)
               ELSE Returned(Len(parsed.values)))
        /\ fresh' = FALSE
        /\ UNCHANGED <<now, max_events, call_id_counter, appended,
                       persist_path, persist_lines>>
        /\ UNCHANGED <<answer, outsideLedger>>

\* A clear that also restarts the id counter.
ClearRestartsCounter ==
    /\ events' = <<>>
    /\ call_id_counter' = 0
    /\ sinceClear' = <<>>
    /\ fresh' = FALSE
    /\ replayed' = NoReplay
    /\ UNCHANGED <<now, max_events, appended, persist_path, persist_lines>>
    /\ UNCHANGED <<answer, outsideLedger>>

\* WorldModel.clear (world_model.py:142-145).
Clear ==
    /\ events' = <<>>
    /\ sinceClear' = <<>>
    /\ fresh' = FALSE
    /\ replayed' = NoReplay
    /\ UNCHANGED <<now, max_events, call_id_counter, appended, persist_path,
                   persist_lines>>
    /\ UNCHANGED <<answer, outsideLedger>>

\* A new WorldModel(max_events, persist_path) is constructed; the mirror file
\* of the earlier one stays on disk.
NewLedger(cap, path) ==
    /\ ~fresh
    /\ events' = <<>>
    /\ call_id_counter' = 0
    /\ max_events' = cap
    /\ persist_path' = path
    /\ sinceClear' = <<>>
    /\ fresh' = TRUE
    /\ replayed' = NoReplay
    /\ UNCHANGED <<now, appended, persist_lines>>
    /\ UNCHANGED <<answer, outsideLedger>>

\* WorldModel.__init__ with no mirror file written yet.
InitStore(paths) ==
    /\ persist_path \in paths
    /\ persist_lines = <<>>
    /\ replayed = NoReplay
    /\ sinceClear = <<>>
    /\ fresh = TRUE
    /\ answer = NoAnswer

\* ----------------------------------------------------- the ledger's queries
\* list[-n:]: the last n entries for n > 0, the whole list for n = 0, and the
\* list without its first -n entries for n < 0.
SliceFromEnd(seq, n) ==
    IF n > 0 THEN (IF n >= Len(seq) THEN seq
                   ELSE SubSeq(seq, Len(seq) - n + 1, Len(seq)))
    ELSE SubSeq(seq, 1 - n, Len(seq))

\* get_recent(n) (world_model.py:86).
RecentEvents(n) == SliceFromEnd(events, n)

\* get_events_for_agent(agent_id, n) (world_model.py:99).
EventsForAgent(agent_id, n) ==
    SelectSeq(SliceFromEnd(events, n), LAMBDA e : e.agent_id = agent_id)

\* get_events_by_type(event_type, n) (world_model.py:112).
EventsByType(event_type, n) ==
    SelectSeq(SliceFromEnd(events, n), LAMBDA e : e.type = event_type)

\* get_stats() (world_model.py:147-163).
Stats ==
    [total_events |-> Len(events),
     max_capacity |-> max_events,
     unique_agents |-> Cardinality({events[k].agent_id : k \in 1..Len(events)}),
     event_types |->
        [ty \in {events[k].type : k \in 1..Len(events)} |->
            Cardinality({k \in 1..Len(events) : events[k].type = ty})],
     persisted |-> persist_path # None]

\* A query returns; the ledger's fields are only read.
Query(reply) ==
    /\ answer' = reply
    /\ UNCHANGED <<now, events, max_events, call_id_counter, appended,
                   persist_path, persist_lines, replayed, sinceClear, fresh>>
    /\ UNCHANGED outsideLedger

QuerySizes == 0..1

\* The value a query returns: a list of events, or the statistics.
Listed(op, args, result) ==
    [op |-> op, args |-> args, result |-> result]
Counted(stats) == [op |-> "get_stats", stats |-> stats]

GetRecent(n) == Query(Listed("get_recent", [n |-> n], RecentEvents(n)))
GetEventsForAgent(agent_id, n) ==
    Query(Listed("get_events_for_agent", [agent_id |-> agent_id, n |-> n],
                 EventsForAgent(agent_id, n)))
GetEventsByType(event_type, n) ==
    Query(Listed("get_events_by_type", [event_type |-> event_type, n |-> n],
                 EventsByType(event_type, n)))
GetAll == Query(Listed("get_all", [n |-> Len(events)], events))
GetStats == Query(Counted(Stats))

\* -------------------------------------------------------------- the catalog
\* A handler: inspect.iscoroutinefunction(func) is its async field.
CoroutineFunction(id) == [id |-> id, async |-> TRUE]
PlainFunction(id) == [id |-> id, async |-> FALSE]

\* The arguments of register(name, func, schema) with the defaults of the rest.
DefaultRegistration(name) ==
    [func |-> CoroutineFunction(name), schema |-> DictVal, description |-> "",
     sensitivity |-> "low", cost_hint |-> None]

ToolEntry(name) ==
    [func |-> CoroutineFunction(name), schema |-> DictVal, description |-> "",
     sensitivity |-> "low", cost_hint |-> DictVal]

NoCatalogOp == [op |-> "none"]

\* What callers hand to register: handlers, async or not, and metadata.
Handlers == {CoroutineFunction("f1"), CoroutineFunction("f2"), PlainFunction("g")}

CostHint == Dict([latency_ms |-> 1])

Registrations ==
    [func : Handlers, schema : {DictVal}, description : {"", "d"},
     sensitivity : {"low", "high"}, cost_hint : {None, Some(CostHint)}]

\* ValueError(f"Tool function '{name}' must be async")
NotAsyncError(name) ==
    Exc("ValueError", <<"Tool function ", "'", name, "'", " must be async">>)

\* "cost_hint or {}"
CostHintOrEmpty(cost_hint) == IF cost_hint = None THEN DictVal ELSE cost_hint[1]

\* A register that never replaces an entry.
RegisterInKeepFirst(tools, name, r) ==
    IF ~r.func.async
    THEN [tools |-> tools, outcome |-> Raised(NotAsyncError(name))]
    ELSE [tools |->
             [n \in DOMAIN tools \cup {name} |->
                 IF n \in DOMAIN tools THEN tools[n]
                 ELSE [func |-> r.func, schema |-> r.schema,
                       description |-> r.description,
                       sensitivity |-> r.sensitivity,
                       cost_hint |-> CostHintOrEmpty(r.cost_hint)]],
          outcome |-> Returned(None)]

\* ToolRegistry.register (tool_registry.py:17-46) with the arguments r: the
\* catalog afterwards, and what the call returns or raises.
RegisterIn(tools, name, r) ==
    IF ~r.func.async
    THEN [tools |-> tools, outcome |-> Raised(NotAsyncError(name))]
    ELSE [tools |->
             [n \in DOMAIN tools \cup {name} |->
                 IF n = name
                 THEN [func |-> r.func, schema |-> r.schema,
                       description |-> r.description,
                       sensitivity |-> r.sensitivity,
                       cost_hint |-> CostHintOrEmpty(r.cost_hint)]
                 ELSE tools[n]],
          outcome |-> Returned(None)]

\* ToolRegistry.list_tools (tool_registry.py:48-63).
ListTools(tools) ==
    [name \in DOMAIN tools |->
        [description |-> tools[name].description,
         schema |-> tools[name].schema,
         sensitivity |-> tools[name].sensitivity,
         cost_hint |-> tools[name].cost_hint]]

\* A get_tool_info that hands out the entry itself.
GetToolInfoWholeEntry(tools, name) ==
    IF name \notin DOMAIN tools THEN None ELSE Some(tools[name])

\* ToolRegistry.get_tool_info (tool_registry.py:90-100): None, or the metadata.
GetToolInfo(tools, name) ==
    IF name \notin DOMAIN tools THEN None
    ELSE LET tool == tools[name]
         IN  Some([description |-> tool.description,
                   schema |-> tool.schema,
                   sensitivity |-> tool.sensitivity,
                   cost_hint |-> tool.cost_hint])

\* ToolRegistry.call up to the handler's invocation (tool_registry.py:80-84):
\* the handler that is invoked.
CallIn(tools, name) ==
    IF name \notin DOMAIN tools
    THEN Raised(Exc("KeyError", <<"Tool ", "'", name, "'", " not found">>))
    ELSE Returned(tools[name].func)

\* An operation on the catalog: the dispatcher's other fields stay.
CatalogOp(tools, op) ==
    /\ _tools' = tools
    /\ catalog_op' = op
    /\ UNCHANGED <<now, _rate_limits, _call_counter, events, max_events,
                   call_id_counter, appended, pc, req, started, ret, steps,
                   fault, request, sent>>
    /\ UNCHANGED <<permVars, auditVars, storeVars, connVars, isolationVars>>

Register(name, r) ==
    LET done == RegisterIn(_tools, name, r)
    IN  /\ latest' = IF r.func.async
                     THEN [n \in DOMAIN latest \cup {name} |->
                              IF n = name THEN r ELSE latest[n]]
                     ELSE latest
        /\ CatalogOp(done.tools, [op |-> "register", name |-> name, args |-> r,
                                  outcome |-> done.outcome])

ListToolsOp ==
    /\ UNCHANGED latest
    /\ CatalogOp(_tools, [op |-> "list_tools", result |-> ListTools(_tools)])

GetToolInfoOp(name) ==
    /\ UNCHANGED latest
    /\ CatalogOp(_tools, [op |-> "get_tool_info", name |-> name,
                          result |-> GetToolInfo(_tools, name)])

CallOp(name) ==
    /\ UNCHANGED latest
    /\ CatalogOp(_tools, [op |-> "call", name |-> name,
                          outcome |-> CallIn(_tools, name)])

\* ------------------------------------------------------ the isolation layer
\* reset_if_needed(reset_interval_sec=60) and the 60.0 of check_tool_rate_limit.
ResetInterval == 60
QuotaWindow == 60

\* Capabilities named in the checks: "say" has a limit, "scan" has none.
QuotaTools == {"say", "scan"}

\* AgentQuota(agent_id) with the defaults of the dataclass, created at time t.
DefaultQuota(agent_id, t) ==
    [agent_id |-> agent_id, cpu_budget_ms |-> 60000, storage_quota_mb |-> 500,
     tool_rate_limits |-> [capture_frame |-> 30, record_audio |-> 10, say |-> 20],
     cpu_used_ms |-> 0, storage_used_mb |-> 0, last_reset |-> t,
     tool_calls |-> <<>>]

\* A quota a caller builds with budgets of its own.
CustomQuota(agent_id, limit, t) ==
    [DefaultQuota(agent_id, t) EXCEPT !.cpu_budget_ms = 2,
                                      !.storage_quota_mb = 2,
                                      !.tool_rate_limits = [say |-> limit]]

\* A reset that starts every usage counter again, storage included.
ResetIfNeededAll(q, t) ==
    IF t - q.last_reset > ResetInterval
    THEN [q EXCEPT !.cpu_used_ms = 0, !.storage_used_mb = 0,
                   !.tool_calls = <<>>, !.last_reset = t]
    ELSE q

\* AgentQuota.reset_if_needed (multiagent.py:29-35).
ResetIfNeeded(q, t) ==
    IF t - q.last_reset > ResetInterval
    THEN [q EXCEPT !.cpu_used_ms = 0, !.tool_calls = <<>>, !.last_reset = t]
    ELSE q

\* The timestamps recorded for a tool, [] when it has no key yet.
CallsOf(q, tool_name) ==
    IF tool_name \in DOMAIN q.tool_calls THEN q.tool_calls[tool_name] ELSE <<>>

\* self.tool_calls[tool_name] = calls
WithCalls(q, tool_name, calls) ==
    [q EXCEPT !.tool_calls =
        [n \in DOMAIN q.tool_calls \cup {tool_name} |->
            IF n = tool_name THEN calls ELSE q.tool_calls[n]]]

\* A limiter that counts a call when it lets it through.
CheckToolRateLimitCounting(q, tool_name, t) ==
    LET r == ResetIfNeeded(q, t)
    IN  IF tool_name \notin DOMAIN r.tool_rate_limits
        THEN [quota |-> r, ok |-> TRUE]
        ELSE LET kept == SelectSeq(CallsOf(r, tool_name),
                                   LAMBDA ts : t - ts < QuotaWindow)
                 ok == Len(kept) < r.tool_rate_limits[tool_name]
             IN  [quota |-> WithCalls(r, tool_name,
                                      IF ok THEN Append(kept, t) ELSE kept),
                  ok |-> ok]

\* AgentQuota.check_tool_rate_limit (multiagent.py:47-65): the quota
\* afterwards and the answer.
CheckToolRateLimit(q, tool_name, t) ==
    LET r == ResetIfNeeded(q, t)
    IN  IF tool_name \notin DOMAIN r.tool_rate_limits
        THEN [quota |-> r, ok |-> TRUE]
        ELSE LET kept == SelectSeq(CallsOf(r, tool_name),
                                   LAMBDA ts : t - ts < QuotaWindow)
             IN  [quota |-> WithCalls(r, tool_name, kept),
                  ok |-> Len(kept) < r.tool_rate_limits[tool_name]]

\* AgentQuota.check_cpu_budget (multiagent.py:37-40).
CheckCpuBudget(q, additional_ms, t) ==
    LET r == ResetIfNeeded(q, t)
    IN  [quota |-> r, ok |-> r.cpu_used_ms + additional_ms <= r.cpu_budget_ms]

\* AgentQuota.use_cpu (multiagent.py:42-45).
UseCpu(q, duration_ms, t) ==
    LET r == ResetIfNeeded(q, t)
    IN  [r EXCEPT !.cpu_used_ms = @ + duration_ms]

\* AgentQuota.record_tool_call (multiagent.py:67-74).
QuotaRecordToolCall(q, tool_name, t) ==
    LET r == ResetIfNeeded(q, t)
    IN  WithCalls(r, tool_name, Append(CallsOf(r, tool_name), t))

NoAccess == [allowed |-> FALSE, tool |-> "", est |-> 0,
             reason |-> [reason |-> "none"]]

\* The isolation layer's other variables stay, and so does everything else
\* but the clock.
IsolationOp ==
    UNCHANGED <<dispatchVars, permVars, auditVars, storeVars, connVars,
                catalogVars>>

\* register_agent that installs the quota it is given over an existing record.
EngineRegisterAgentReplacing(agent_id, quota) ==
    /\ quotas' = [a \in DOMAIN quotas \cup {agent_id} |->
                     IF a = agent_id THEN quota ELSE quotas[a]]
    /\ agents_online' = agents_online \cup {agent_id}
    /\ locked' = FALSE
    /\ UNCHANGED <<access, admitted>>
    /\ IsolationOp

\* MultiagentEngine.register_agent (multiagent.py:107-122).
EngineRegisterAgent(agent_id, quota) ==
    /\ quotas' = IF agent_id \in DOMAIN quotas THEN quotas
                 ELSE [a \in DOMAIN quotas \cup {agent_id} |->
                          IF a = agent_id THEN quota ELSE quotas[a]]
    /\ agents_online' = agents_online \cup {agent_id}
    /\ locked' = FALSE
    /\ UNCHANGED <<access, admitted>>
    /\ IsolationOp

\* MultiagentEngine.deregister_agent (multiagent.py:124-127).
DeregisterAgent(agent_id) ==
    /\ agents_online' = agents_online \ {agent_id}
    /\ locked' = FALSE
    /\ UNCHANGED <<quotas, access, admitted>>
    /\ IsolationOp

\* What check_tool_access returns, with the quota as it leaves it
\* (multiagent.py:145-159).
ToolAccess(q, tool_name, estimated_duration_ms, t) ==
    LET rate == CheckToolRateLimit(q, tool_name, t)
        cpu == CheckCpuBudget(rate.quota, estimated_duration_ms, t)
    IN  IF ~rate.ok
        THEN [quota |-> rate.quota, allowed |-> FALSE,
              reason |-> [reason |-> "rate_limit_exceeded",
                          limit |-> IF tool_name \in DOMAIN q.tool_rate_limits
                                    THEN q.tool_rate_limits[tool_name] ELSE 0]]
        ELSE IF estimated_duration_ms > 0 /\ ~cpu.ok
        THEN [quota |-> cpu.quota, allowed |-> FALSE,
              reason |-> [reason |-> "cpu_budget_exceeded"]]
        ELSE [quota |-> IF estimated_duration_ms > 0 THEN cpu.quota
                        ELSE rate.quota,
              allowed |-> TRUE, reason |-> [reason |-> "None"]]

\* The calls allowed are counted up to this many.
MaxAdmitted == 3
\* CPU and storage usage are followed up to this much.
MaxUsage == 4

\* MultiagentEngine.check_tool_access (multiagent.py:133-159); the history of
\* admitted calls is kept by the caller.
CheckToolAccess(agent_id, tool_name, estimated_duration_ms) ==
    /\ IF agent_id \notin DOMAIN quotas
       THEN /\ access' = [access EXCEPT ![agent_id] =
                             [allowed |-> FALSE, tool |-> tool_name,
                              est |-> estimated_duration_ms,
                              reason |-> [reason |-> "agent_not_registered"]]]
            /\ UNCHANGED quotas
       ELSE LET r == ToolAccess(quotas[agent_id], tool_name,
                                estimated_duration_ms, now)
            IN  /\ quotas' = [quotas EXCEPT ![agent_id] = r.quota]
                /\ access' = [access EXCEPT ![agent_id] =
                                 [allowed |-> r.allowed, tool |-> tool_name,
                                  est |-> estimated_duration_ms,
                                  reason |-> r.reason]]
    /\ locked' = TRUE
    /\ UNCHANGED agents_online
    /\ IsolationOp

\* MultiagentEngine.record_tool_call (multiagent.py:161-176).
RecordToolCall(agent_id, tool_name, duration_ms, storage_mb) ==
    /\ IF agent_id \notin DOMAIN quotas
       THEN UNCHANGED quotas
       ELSE LET q1 == QuotaRecordToolCall(quotas[agent_id], tool_name, now)
                q2 == IF duration_ms > 0 THEN UseCpu(q1, duration_ms, now)
                      ELSE q1
                q3 == IF storage_mb > 0
                      THEN [q2 EXCEPT !.storage_used_mb = @ + storage_mb]
                      ELSE q2
            IN  quotas' = [quotas EXCEPT ![agent_id] = q3]
    /\ access' = [access EXCEPT ![agent_id] = NoAccess]
    /\ locked' = TRUE
    /\ UNCHANGED <<agents_online, admitted>>
    /\ IsolationOp

\* MultiagentEngine.get_agent_stats (multiagent.py:178-183): AgentQuota.get_stats
\* begins with reset_if_needed (multiagent.py:78); the dictionary returned is
\* read from the record as the reset leaves it and is not kept.
EngineGetAgentStats(agent_id) ==
    /\ quotas' = IF agent_id \in DOMAIN quotas
                 THEN [quotas EXCEPT ![agent_id] = ResetIfNeeded(@, now)]
                 ELSE quotas
    /\ locked' = FALSE
    /\ UNCHANGED <<agents_online, access, admitted>>
    /\ IsolationOp

\* MultiagentEngine.__init__ (multiagent.py:101-105).
InitIsolation ==
    /\ quotas = <<>>
    /\ agents_online = {}
    /\ access = [a \in AgentIds |-> NoAccess]
    /\ admitted = <<>>
    /\ locked = FALSE

\* Time passes for the isolation layer.
TickQuota ==
    /\ now < MaxTime + Quantum
    /\ now' = now + Quantum
    /\ UNCHANGED <<_tools, _rate_limits, _call_counter, events, max_events,
                   call_id_counter, appended, pc, req, started, ret, steps,
                   fault, request, sent>>
    /\ UNCHANGED outsideDispatch

\* More than a reset interval passes at once.
TickInterval ==
    /\ now < MaxTime
    /\ now' = now + ResetInterval + Quantum
    /\ UNCHANGED <<_tools, _rate_limits, _call_counter, events, max_events,
                   call_id_counter, appended, pc, req, started, ret, steps,
                   fault, request, sent>>
    /\ UNCHANGED outsideDispatch

\* An agent that asks check_tool_access before every call and reports every
\* call that was allowed to record_tool_call before it asks again.
GatedCheck(agent_id, tool_name) ==
    /\ ~access[agent_id].allowed
    /\ Len(admitted) < MaxAdmitted
    /\ CheckToolAccess(agent_id, tool_name, 0)
    /\ admitted' = IF access'[agent_id].allowed
                   THEN Append(admitted, [agent |-> agent_id,
                                          tool |-> tool_name, t |-> now])
                   ELSE admitted

GatedRecord(agent_id) ==
    /\ access[agent_id].allowed
    /\ RecordToolCall(agent_id, access[agent_id].tool, 0, 0)

\* ----------------------------------------------------------- connections
\* A text frame json.loads accepts, giving the value; a text frame it rejects;
\* a binary frame that is not UTF-8.
TextFrame(value) == [frame |-> "text", json |-> "value", value |-> value]
MalformedText == [frame |-> "text", json |-> "malformed"]
UndecodableBinary == [frame |-> "binary", json |-> "undecodable"]

Request(method) == Dict([method |-> Str(method)])
RequestWith(method, params) == Dict([method |-> Str(method), params |-> params])

\* The n of the get_history requests a client sends.
HistorySizes == {1, 2}

\* params.get("n", 10)
DefaultHistory == 10

\* The messages a client sends on a connection, call_tool requests aside.
Messages ==
    { MalformedText, UndecodableBinary, TextFrame(ListVal),
      TextFrame(Request("nope")), TextFrame(Request("ping")),
      TextFrame(Request("list_tools")),
      TextFrame(RequestWith("get_tool_info", Dict([tool |-> Str("echo")]))),
      TextFrame(RequestWith("get_history", Dict([n |-> Str("x")]))) }
    \cup { TextFrame(RequestWith("get_history", Dict([n |-> IntVal(k)]))) :
             k \in HistorySizes }

UnicodeDecodeError ==
    Exc("UnicodeDecodeError", <<"'", "utf-8", "'", " codec can", "'",
                                "t decode byte 0xff in position 0: ",
                                "invalid start byte">>)

\* list(self.events)[-n:] with n a str.
BadOperandError ==
    Exc("TypeError", <<"bad operand type for unary -: ", "'", "str", "'">>)

CancelledError == Exc("CancelledError", <<>>)

\* The metadata list_tools and get_tool_info give for a tool: the entry
\* without its func.
ToolInfo(name) ==
    Dict([description |-> _tools[name].description,
          schema |-> _tools[name].schema,
          sensitivity |-> _tools[name].sensitivity,
          cost_hint |-> _tools[name].cost_hint])

\* A JSON array of events, as a response carries it.
EventList(evts) == [t |-> "list", v |-> evts]

\* _handle_request(agent_id, request) for the methods other than call_tool
\* (agent_bridge.py:80-83 and 105-125): what it returns or raises.
HandleRequest(agent_id, r) ==
    IF r.t # "dict" THEN Raised(NoGetError)
    ELSE
    LET method == Get(r, "method", NullVal)
        params == Get(r, "params", Dict(<<>>))
    IN  IF method = Str("list_tools")
        THEN Returned([result |-> Dict([n \in DOMAIN _tools |-> ToolInfo(n)])])
        ELSE IF method = Str("get_history")
        THEN IF params.t # "dict" THEN Raised(NoGetError)
             ELSE LET n == Get(params, "n", IntVal(DefaultHistory))
                  IN  IF n.t # "int" THEN Raised(BadOperandError)
                      ELSE Returned([result |->
                               EventList(EventsForAgent(agent_id, n.n))])
        ELSE IF method = Str("get_tool_info")
        THEN IF params.t # "dict" THEN Raised(NoGetError)
             ELSE LET tool_name == Get(params, "tool", NullVal)
                  IN  IF ~TruthyValue(tool_name)
                      THEN Returned([error |-> <<"missing_tool_name">>])
                      ELSE IF ~Hashable(tool_name)
                      THEN Raised(UnhashableError)
                      ELSE IF ~HasTool(tool_name)
                      THEN Returned([error |-> <<"tool_not_found">>,
                                     tool |-> tool_name])
                      ELSE Returned([result |-> ToolInfo(tool_name.s)])
        ELSE IF method = Str("ping")
        THEN Returned([result |-> Str("pong")])
        ELSE Returned([error |-> <<"unknown_method">>, method |-> method])

\* json.dumps(response) of a response that carries events: an event holding
\* bytes cannot be serialised.
Sendable(response) ==
    ("result" \in DOMAIN response /\ response.result.t = "list")
        => \A k \in 1..Len(response.result.v) : Dumpable(response.result.v[k])

InvalidJson ==
    [error |-> <<"invalid_json">>, message |-> <<"Could not parse JSON">>]

\* One turn of handle_client's loop for such a message (agent_bridge.py:49-62):
\* the response that is sent.
Respond(agent_id, message) ==
    IF message.json = "malformed" THEN InvalidJson
    ELSE IF message.json = "undecodable" THEN InternalError(UnicodeDecodeError)
    ELSE LET outcome == HandleRequest(agent_id, message.value)
         IN  IF outcome.how = "raised" THEN InternalError(outcome.exc)
             ELSE IF ~Sendable(outcome.result)
                  THEN InternalError(NotSerializableError)
                  ELSE outcome.result

\* Messages read on the connections, call_tool requests aside, are counted up
\* to this many.
MaxMessages == 2

RECURSIVE MessagesRead(_)
MessagesRead(k) ==
    IF k = 0 THEN 0 ELSE Len(exchange[k]) + MessagesRead(k - 1)

\* handle_client on connection i reads a message, handles it and sends the
\* response; it reads no message while it awaits a call_tool request.
Receive(i, message) ==
    /\ connected[i]
    /\ pc[i] \notin {"dispatched", "running"}
    /\ MessagesRead(MaxCalls) < MaxMessages
    /\ exchange' = [exchange EXCEPT ![i] =
                       Append(@, [message |-> message,
                                  response |-> Respond(ConnAgent(i), message)])]
    /\ UNCHANGED <<connected, dispatchVars, permVars, auditVars, storeVars,
                   catalogVars, isolationVars>>

\* The handler of a call_tool request raises asyncio.CancelledError, which is
\* not an Exception: it passes the except clauses of execute_call
\* (scheduler.py:126-131) and of handle_client (agent_bridge.py:54-66), no
\* result event is appended, nothing is sent and handle_client ends.
HandlerCancelled(i) ==
    /\ pc[i] = "running"
    /\ req[i].via = "bridge"
    /\ pc' = [pc EXCEPT ![i] = "done"]
    /\ ret' = [ret EXCEPT ![i] = Raised(CancelledError)]
    /\ fault' = [fault EXCEPT ![i] = Fault("handler", CancelledError)]
    /\ connected' = [connected EXCEPT ![i] = FALSE]
    /\ UNCHANGED <<now, _tools, _rate_limits, _call_counter, events, max_events,
                   call_id_counter, appended, req, started, steps, request,
                   sent, exchange>>
    /\ UNCHANGED <<permVars, auditVars, storeVars, catalogVars, isolationVars>>

\* ------------------------------------------------------------------- Init
LimitInfo(limit) == [limit |-> limit, window |-> RateWindow, calls |-> <<>>]

\* Scheduler.set_rate_limit (scheduler.py:23-35).
SetRateLimit(tool_name, calls_per_minute) ==
    /\ _rate_limits' = [n \in DOMAIN _rate_limits \cup {tool_name} |->
                           IF n = tool_name THEN LimitInfo(calls_per_minute)
                           ELSE _rate_limits[n]]
    /\ UNCHANGED <<now, _tools, _call_counter, events, max_events,
                   call_id_counter, appended, pc, req, started, ret, steps,
                   fault, request, sent>>
    /\ UNCHANGED outsideDispatch

IdleReq == [via |-> "none", agent_id |-> "", call_id |-> "", tool |-> Str(""),
            args |-> DictVal, timeout |-> None]

\* The dispatcher, ledger, catalog and front-end after construction, with the
\* given tasks not yet started.
InitDispatch(tasks, limits, capacities) ==
    /\ now = 0
    /\ _tools = [n \in Registered |-> ToolEntry(n)]
    /\ \E L \in limits : _rate_limits = [n \in {"echo"} |-> LimitInfo(L)]
    /\ _call_counter = 0
    /\ events = <<>>
    /\ max_events \in capacities
    /\ call_id_counter = 0
    /\ appended = <<>>
    /\ pc = [i \in tasks |-> "idle"]
    /\ req = [i \in tasks |-> IdleReq]
    /\ started = [i \in tasks |-> 0]
    /\ ret = [i \in tasks |-> NoOutcome]
    /\ steps = [i \in tasks |-> <<>>]
    /\ fault = [i \in tasks |-> NoFault]
    /\ request = [i \in tasks |-> NullVal]
    /\ sent = [i \in tasks |-> NoReply]
    /\ connected = [i \in tasks |-> TRUE]
    /\ exchange = [i \in tasks |-> <<>>]
    /\ latest = [n \in Registered |-> DefaultRegistration(n)]
    /\ catalog_op = NoCatalogOp
    /\ InitIsolation

\* The engine after construction.
InitWith(tasks, limits, capacities) ==
    /\ InitDispatch(tasks, limits, capacities)
    /\ InitPermissions({DefaultPolicy})
    /\ InitAudit({None})
    /\ InitStore({None})

\* Concurrent callers of Scheduler.execute_call.
Init == InitWith(Tasks, 1..MaxLimit, {DefaultMaxEvents})

Next ==
    \/ \E i \in Tasks : Submit(i)
    \/ \E i \in Tasks : Invoke(i)
    \/ \E i \in Tasks : HandlerReturns(i, DictVal)
    \/ \E i \in Tasks, e \in HandlerExceptions : HandlerRaises(i, e)
    \/ \E i \in Tasks : Expire(i)
    \/ Tick

Spec == Init /\ [][Next]_vars

\* Concurrent callers while a second capability, one that is not registered,
\* is given its rate limit.
InitWindows == InitWith(Tasks, {MaxLimit}, {DefaultMaxEvents})

NextWindows ==
    \/ \E i \in Tasks : Submit(i)
    \/ \E i \in Tasks : Invoke(i)
    \/ \E i \in Tasks : HandlerReturns(i, DictVal)
    \/ \E i \in Tasks : HandlerRaises(i, Exc("ValueError", <<"bad">>))
    \/ \E i \in Tasks : Expire(i)
    \/ Tick
    \/ /\ "ghost" \notin DOMAIN _rate_limits
       /\ SetRateLimit("ghost", MaxLimit)

SpecWindows == InitWindows /\ [][NextWindows]_vars

\* Clients of the front-end, one connection each, sending call_tool requests.
NextBridge ==
    \/ \E i \in Tasks : CallTool(i)
    \/ \E i \in Tasks : Invoke(i)
    \/ \E i \in Tasks, data \in {DictVal, BytesVal} : HandlerReturns(i, data)
    \/ \E i \in Tasks, e \in HandlerExceptions : HandlerRaises(i, e)
    \/ \E i \in Tasks : Expire(i)
    \/ Tick

SpecBridge == Init /\ [][NextBridge]_vars

\* Clients of the front-end, one connection each, sending messages of every
\* kind; the clock stands still.
InitConn == InitWith(Tasks, {MaxLimit}, {DefaultMaxEvents})

NextConn ==
    \/ \E i \in Tasks : CallTool(i)
    \/ \E i \in Tasks : Invoke(i)
    \/ \E i \in Tasks : HandlerReturns(i, DictVal)
    \/ \E i \in Tasks : HandlerRaises(i, Exc("ValueError", <<"bad">>))
    \/ \E i \in Tasks : HandlerCancelled(i)
    \/ \E i \in Tasks, message \in Messages : Receive(i, message)

SpecConn == InitConn /\ [][NextConn]_vars

\* Clients of the front-end, one connection each, sending one call_tool request
\* each; the clock stands still.
NextCalls ==
    \/ \E i \in Tasks : CallTool(i)
    \/ \E i \in Tasks : Invoke(i)
    \/ \E i \in Tasks : HandlerReturns(i, DictVal)
    \/ \E i \in Tasks : HandlerRaises(i, Exc("ValueError", <<"bad">>))

SpecCalls == InitConn /\ [][NextCalls]_vars

\* Callers of the catalog: registrations in any order, and its three readers.
InitCatalog == InitWith({}, {MaxLimit}, {DefaultMaxEvents})

NextCatalog ==
    \/ \E name \in ToolNames, r \in Registrations : Register(name, r)
    \/ ListToolsOp
    \/ \E name \in ToolNames : GetToolInfoOp(name)
    \/ \E name \in ToolNames : CallOp(name)

SpecCatalog == InitCatalog /\ [][NextCatalog]_vars

\* Agents of the isolation layer whose every call is gated and recorded.
NextGated ==
    \/ \E a \in AgentIds, limit \in 1..MaxLimit :
          EngineRegisterAgent(a, CustomQuota(a, limit, now))
    \/ \E a \in AgentIds, tool_name \in QuotaTools : GatedCheck(a, tool_name)
    \/ \E a \in AgentIds : GatedRecord(a)
    \/ TickQuota

SpecGated == InitCatalog /\ [][NextGated]_vars

\* Durations (ms) and storage amounts (MB) that callers report: none, or as
\* much as the whole budget of a custom quota.
Durations == {0, 2}
Amounts == {0, 2}

\* A call is accounted while the usage followed stays within MaxUsage.
AccountedCall(a, tool_name, duration_ms, storage_mb) ==
    /\ a \in DOMAIN quotas =>
          /\ Len(CallsOf(quotas[a], tool_name)) < MaxLimit
          /\ quotas[a].cpu_used_ms + duration_ms <= MaxUsage
          /\ quotas[a].storage_used_mb + storage_mb <= MaxUsage
    /\ RecordToolCall(a, tool_name, duration_ms, storage_mb)

\* One agent of the isolation layer under any caller: access is asked for and
\* calls are accounted in any order, while time passes.
NextUsage ==
    \/ EngineRegisterAgent("a1", CustomQuota("a1", MaxLimit, now))
    \/ \E tool_name \in QuotaTools, est \in Durations :
          CheckToolAccess("a1", tool_name, est) /\ UNCHANGED admitted
    \/ \E d \in Durations, m \in Amounts : AccountedCall("a1", "say", d, m)
    \/ TickQuota

SpecUsage == InitCatalog /\ [][NextUsage]_vars

\* Two agents of the isolation layer: they register with the default quota or
\* one of their own, go offline, ask for access and account their calls.
NextRoster ==
    \/ \E a \in AgentIds :
          \E q \in {DefaultQuota(a, now), CustomQuota(a, MaxLimit, now)} :
             EngineRegisterAgent(a, q)
    \/ \E a \in AgentIds : DeregisterAgent(a)
    \/ \E a \in AgentIds :
          CheckToolAccess(a, "say", 2) /\ UNCHANGED admitted
    \/ \E a \in AgentIds, u \in Amounts : AccountedCall(a, "say", u, u)
    \/ TickInterval

SpecRoster == InitCatalog /\ [][NextRoster]_vars

\* An allowed call is accounted with the duration and the storage it used.
GatedAccounted(agent_id, duration_ms, storage_mb) ==
    /\ access[agent_id].allowed
    /\ AccountedCall(agent_id, access[agent_id].tool, duration_ms, storage_mb)

\* One agent whose every call is gated by check_tool_access and accounted by
\* record_tool_call with what it used.
NextMetered ==
    \/ EngineRegisterAgent("a1", CustomQuota("a1", MaxLimit, now))
    \/ \E tool_name \in QuotaTools : GatedCheck("a1", tool_name)
    \/ \E d \in Durations, m \in Amounts : GatedAccounted("a1", d, m)
    \/ TickQuota

SpecMetered == InitCatalog /\ [][NextMetered]_vars

\* One agent whose record is registered, asked about, accounted on and read
\* for statistics while the reset interval passes.
NextLocking ==
    \/ \E q \in {DefaultQuota("a1", now), CustomQuota("a1", MaxLimit, now)} :
          EngineRegisterAgent("a1", q)
    \/ DeregisterAgent("a1")
    \/ \E tool_name \in QuotaTools :
          CheckToolAccess("a1", tool_name, 2) /\ UNCHANGED admitted
    \/ \E d \in Durations, m \in Amounts : AccountedCall("a1", "say", d, m)
    \/ EngineGetAgentStats("a1")
    \/ TickQuota

SpecLocking == InitCatalog /\ [][NextLocking]_vars


\* The limit is per capability: calls count against it whichever agent makes
\* them.
Agents == {"a1", "a2"}

\* execute_call for "echo" issued again and again, each call after the previous
\* one has returned, all inside one rate window.
SubmitRapid(i) ==
    /\ CanStart(i)
    /\ InFlight = {}
    /\ \E agent_id \in Agents :
          ExecuteCallStart(i, "direct", agent_id, CallIdOf(i), Str("echo"),
                           DictVal, Some(DefaultTimeout))
    /\ UNCHANGED request
    /\ UNCHANGED outsideDispatch

\* Time passes, staying inside the window opened by the first call.
TickRapid ==
    /\ now + Quantum < RateWindow
    /\ now' = now + Quantum
    /\ UNCHANGED <<_tools, _rate_limits, _call_counter, events, max_events,
                   call_id_counter, appended, pc, req, started, ret, steps,
                   fault, request, sent>>
    /\ UNCHANGED outsideDispatch

InitRapid == InitWith(RapidTasks, 0..MaxLimit, {DefaultMaxEvents})

NextRapid ==
    \/ \E i \in RapidTasks : SubmitRapid(i)
    \/ \E i \in RapidTasks : Invoke(i)
    \/ \E i \in RapidTasks : HandlerReturns(i, DictVal)
    \/ TickRapid

SpecRapid == InitRapid /\ [][NextRapid]_vars

\* A caller awaits execute_call with any timeout value the signature accepts.
SubmitAny(i) ==
    /\ CanStart(i)
    /\ \E name \in ToolNames, timeout \in TimeoutValues :
          ExecuteCallStart(i, "direct", "a1", CallIdOf(i), Str(name), DictVal,
                           timeout)
    /\ UNCHANGED request
    /\ UNCHANGED outsideDispatch

\* Calls whose handlers never complete.
NextHang ==
    \/ \E i \in Tasks : SubmitAny(i)
    \/ \E i \in Tasks : Invoke(i)
    \/ \E i \in Tasks : Expire(i)
    \/ Tick

\* The event loop runs every ready coroutine and fires every due timer.
SpecHang ==
    /\ Init
    /\ [][NextHang]_vars
    /\ WF_vars(Tick)
    /\ \A i \in Tasks : WF_vars(Invoke(i)) /\ WF_vars(Expire(i))


\* An administrative console and callers of the policy evaluator.
InitPerm ==
    /\ InitDispatch({}, {MaxLimit}, {DefaultMaxEvents})
    /\ InitPermissions(Policies)
    /\ InitAudit({None})
    /\ InitStore({None})

NextPerm ==
    \/ \E a \in AgentIds, scopes \in {None} \cup {Some(g) : g \in SUBSET Scopes} :
          RegisterAgent(a, scopes)
    \/ \E a \in AgentIds, s \in Scopes : GrantScope(a, s)
    \/ \E a \in AgentIds, s \in Scopes : RevokeScope(a, s)
    \/ \E a \in AgentIds, r \in {None} \cup {Some(s) : s \in Scopes} :
          CheckPermission(a, "echo", r)

SpecPerm == InitPerm /\ [][NextPerm]_vars

\* Ring capacities of the ledgers that are constructed.
Capacities == {2, DefaultMaxEvents}

\* Callers of one ledger at a time: append, replay of the mirror, clear, and a
\* later ledger constructed over the same mirror file.
InitLedger ==
    /\ InitDispatch({}, {MaxLimit}, Capacities)
    /\ InitPermissions({DefaultPolicy})
    /\ InitAudit({None})
    /\ InitStore({None, Some(MirrorPath)})

NextLedger ==
    \/ \E event \in EventShapes : AppendOp(event)
    \/ \E event \in EventShapes, cap \in Capacities : TornMirrorWrite(event, cap)
    \/ LoadFromJsonl
    \/ Clear
    \/ \E cap \in Capacities, path \in {None, Some(MirrorPath)} :
          NewLedger(cap, path)

SpecLedger == InitLedger /\ [][NextLedger]_vars

\* One ledger over its lifetime: events with and without a call_id and a
\* timestamp are appended while time passes, and the ring is cleared.
StampShapes ==
    { [type |-> "observation", agent_id |-> "a1"],
      [type |-> "observation", agent_id |-> "a1", call_id |-> "c1"],
      [type |-> "observation", agent_id |-> "a1", timestamp |-> 5],
      [type |-> "observation", agent_id |-> "a1", call_id |-> "event-1",
       timestamp |-> 5] }

InitStamps ==
    /\ InitDispatch({}, {MaxLimit}, {DefaultMaxEvents})
    /\ InitPermissions({DefaultPolicy})
    /\ InitAudit({None})
    /\ InitStore({None})

NextStamps ==
    \/ \E event \in StampShapes : AppendOp(event)
    \/ Clear
    \/ Tick

SpecStamps == InitStamps /\ [][NextStamps]_vars

\* Ledgers that all mirror to the same file: every append_event is persisted
\* (or cut short while it is), and a later ledger replays the file.
InitReplay ==
    /\ InitDispatch({}, {MaxLimit}, Capacities)
    /\ InitPermissions({DefaultPolicy})
    /\ InitAudit({None})
    /\ InitStore({Some(MirrorPath)})

NextReplay ==
    \/ \E event \in EventShapes : AppendOp(event)
    \/ \E event \in EventShapes, cap \in Capacities : TornMirrorWrite(event, cap)
    \/ LoadFromJsonl
    \/ Clear
    \/ \E cap \in Capacities : NewLedger(cap, Some(MirrorPath))

SpecReplay == InitReplay /\ [][NextReplay]_vars

\* An audit logger on its own: records are written, a write is cut short, and
\* the file is read back.
AuditStatuses == {"success", "error"}

InitAudited ==
    /\ InitDispatch({}, {MaxLimit}, {DefaultMaxEvents})
    /\ InitPermissions({DefaultPolicy})
    /\ InitAudit({None, Some(AuditPath)})
    /\ InitStore({None})

NextAudit ==
    \/ \E a \in AgentIds, status \in AuditStatuses :
          LogToolCall(a, "c1", "echo", PyDict(<<>>), PyDict(<<>>), status)
    \/ \E a \in AgentIds :
          LogPermissionDenied(a, "c1", "echo", "Missing required scope: camera")
    \/ \E a \in AgentIds, status \in AuditStatuses :
          TornAuditWrite(a, "c1", "echo", status)
    \/ LoadAuditLog
    \/ \E a \in AgentIds : GetAgentStats(a)

SpecAudit == InitAudited /\ [][NextAudit]_vars

\* The structures fingerprinted: arguments as they arrive in a request, results
\* as a handler builds them.
ArgStructures ==
    {PyDict(<<Item("a", IntVal(1))>>),
     PyDict(<<Item("a", IntVal(1)), Item("b", IntVal(2))>>),
     PyDict(<<Item("b", IntVal(2)), Item("a", IntVal(1))>>),
     PyDict(<<Item("a", PyDict(<<Item("a", IntVal(1)), Item("b", IntVal(2))>>))>>),
     PyDict(<<Item("a", PyDict(<<Item("b", IntVal(2)), Item("a", IntVal(1))>>))>>)}

ResultStructures ==
    ArgStructures \cup
    {PyDict(<<Item("a", PySet(<<8, 16>>))>>),
     PyDict(<<Item("a", PySet(<<16, 8>>))>>)}

\* Calls are fingerprinted by an audit logger with a file.
InitFingerprint ==
    /\ InitDispatch({}, {MaxLimit}, {DefaultMaxEvents})
    /\ InitPermissions({DefaultPolicy})
    /\ InitAudit({Some(AuditPath)})
    /\ InitStore({None})

NextFingerprint ==
    \E args \in ArgStructures, result \in ResultStructures :
        LogToolCall("a1", "c1", "echo", args, result, "success")

SpecFingerprint == InitFingerprint /\ [][NextFingerprint]_vars

\* One ledger of capacity 2 used by the dispatcher and by a direct caller that
\* stamps its events itself, replayed from its mirror, cleared and queried.
InitRing ==
    /\ InitDispatch({1}, {1}, {2})
    /\ InitPermissions({DefaultPolicy})
    /\ InitAudit({None})
    /\ InitStore({Some(MirrorPath)})

NextRing ==
    \/ \E i \in DOMAIN pc : SubmitRapid(i)
    \/ \E i \in DOMAIN pc : Invoke(i)
    \/ \E i \in DOMAIN pc : HandlerReturns(i, DictVal)
    \/ \E event \in {e \in EventShapes : "timestamp" \in DOMAIN e} :
          AppendOp(event)
    \/ LoadFromJsonl
    \/ Clear
    \/ \E n \in QuerySizes : GetRecent(n)
    \/ \E a \in AgentIds, n \in QuerySizes : GetEventsForAgent(a, n)
    \/ \E ty \in {"tool_call", "observation"}, n \in QuerySizes :
          GetEventsByType(ty, n)
    \/ GetAll
    \/ GetStats

SpecRing == InitRing /\ [][NextRing]_vars

\* ================================================================= properties
\* Positions in the append history of task i's events of one type that carry
\* the call_id the task was invoked with.
Appends(i, type) ==
    {k \in 1..Len(appended) : /\ appended[k].task = i
                              /\ appended[k].event.type = type
                              /\ appended[k].event.call_id = req[i].call_id}

AllAppends(i) == {k \in 1..Len(appended) : appended[k].task = i}

C2_AttemptBeforeResult ==
    \A i \in DOMAIN pc :
        /\ steps[i] # <<>> => steps[i][1] = "attempt"
        /\ pc[i] # "idle" => Appends(i, "tool_call") # {}
        /\ \A k \in Appends(i, "tool_result") :
              \E m \in Appends(i, "tool_call") : m < k

\* Two calls interleaved: the second is attempted and finished between the
\* first one's attempt and result.
C2_Witness ==
    \E i, j \in DOMAIN pc :
        /\ i # j
        /\ \E a \in Appends(i, "tool_call"), r \in Appends(i, "tool_result"),
              b \in Appends(j, "tool_call"), q \in Appends(j, "tool_result") :
              a < b /\ b < q /\ q < r
        /\ "invoke" \in Range(steps[i])


\* The call_id a call_tool request declares ("unknown" when it declares none).
RequestCallId(i) == Get(request[i], "call_id", "unknown")

\* The append history of task i, in order.
EventsOf(i) == SelectSeq(appended, LAMBDA a : a.task = i)

\* The request names a tool, so _handle_request passes it to execute_call.
NamesTool(i) ==
    request[i].t = "dict" /\ TruthyValue(Get(request[i], "tool", NullVal))

\* C3: every call_tool request the front-end has answered, whatever its params
\* and outcome, has added exactly two events with its call_id to the ledger: the
\* attempt, then the result.  Stated for the requests that name a tool, the
\* ones that reach the dispatcher.
C3_TwoEventsPerRequest ==
    \A i \in DOMAIN pc :
        (pc[i] = "done" /\ NamesTool(i)) =>
            /\ Len(EventsOf(i)) = 2
            /\ EventsOf(i)[1].event.type = "tool_call"
            /\ EventsOf(i)[2].event.type = "tool_result"
            /\ \A k \in 1..2 : EventsOf(i)[k].event.call_id = RequestCallId(i)

\* C10: every response sent for a call_tool request carries the call_id of that
\* request, whatever the outcome.
C10_ResponseCarriesCallId ==
    \A i \in DOMAIN pc :
        (sent[i] # NoReply /\ request[i].t = "dict") =>
            /\ "call_id" \in DOMAIN sent[i]
            /\ sent[i].call_id = RequestCallId(i)

\* The limit configured for "echo".
EchoLimit == _rate_limits["echo"].limit

RateLimited(i) ==
    ret[i] = Returned(ResultError(req[i].call_id, <<"rate_limited">>))

\* C4: with limit L on "echo" and a handler that does not fail, of L+1 calls
\* issued one after another inside the window the first L return ok and the
\* (L+1)-th returns rate_limited; exactly one of them is rate-limited, and the
\* ledger holds their attempt/result pairs in submission order.
C4_RapidCalls ==
    /\ \A k \in RapidTasks :
          (k <= EchoLimit /\ pc[k] = "done") =>
              ret[k] = Returned(ResultOk(req[k].call_id, DictVal))
    /\ pc[EchoLimit + 1] = "done" =>
          /\ RateLimited(EchoLimit + 1)
          /\ Cardinality({k \in 1..(EchoLimit + 1) : RateLimited(k)}) = 1
          /\ Len(events) >= 2 * (EchoLimit + 1)
          /\ \A k \in 1..(EchoLimit + 1) :
                /\ appended[2 * k - 1].task = k
                /\ appended[2 * k].task = k
                /\ events[2 * k - 1].type = "tool_call"
                /\ events[2 * k - 1].call_id = req[k].call_id
                /\ events[2 * k].type = "tool_result"
                /\ events[2 * k].result = ret[k].result

\* The limit is reached after some time has passed inside the window: the
\* accepted calls have returned ok and the next one has been rejected.
C4_Witness ==
    /\ EchoLimit = MaxLimit
    /\ now > 0
    /\ pc[EchoLimit + 1] = "done"
    /\ RateLimited(EchoLimit + 1)
    /\ \A k \in 1..EchoLimit : ret[k].result.status = "ok"

\* Timestamps of a capability's rate window that lie in the trailing window.
InWindow(name) ==
    {k \in 1..Len(_rate_limits[name].calls) :
        _rate_limits[name].calls[k] > now - _rate_limits[name].window}

\* C5: under any interleaving of concurrent calls, the timestamps recorded in
\* the trailing window of a capability with limit L never number more than L.
C5_WindowWithinLimit ==
    \A name \in DOMAIN _rate_limits :
        Cardinality(InWindow(name)) <= _rate_limits[name].limit

TimedOut(i) == ret[i] = Returned(ResultError(req[i].call_id, <<"timeout">>))

\* A call waiting for its handler under an armed timeout.
Waiting(i) == pc[i] = "running" /\ Truthy(req[i].timeout)

C7_BoundedWait ==
    \A i \in Tasks :
        (pc[i] = "running" /\ req[i].timeout # None)
            ~> (pc[i] = "done" /\ TimedOut(i))

\* The error text of a returned error result.
ErrorOf(i) == ret[i].result.error

\* C8: a lookup or handler failure never leaves execute_call as an exception:
\* an absent capability gives an error starting with tool_not_found, expiry
\* gives timeout, any exception the handler raises gives "<kind>: <message>",
\* and the result event is appended in each case.
C8_FailuresNormalized ==
    \A i \in DOMAIN pc :
        (pc[i] = "done" /\ fault[i].origin # "none") =>
            /\ ret[i].how = "returned"
            /\ ret[i].result.status = "error"
            /\ Cardinality(Appends(i, "tool_result")) = 1
            /\ fault[i].origin = "lookup" => Head(ErrorOf(i)) = "tool_not_found"
            /\ fault[i].origin = "wait_for" => ErrorOf(i) = <<"timeout">>
            /\ fault[i].origin = "handler" =>
                  Join(ErrorOf(i)) =
                      Join(<<fault[i].exc.kind, ": ">> \o PyStr(fault[i].exc))

\* C9: a call naming an unregistered capability returns an error whose text is
\* exactly "tool_not_found: " followed by the capability name.
C9_NotFoundText ==
    \A i \in DOMAIN pc :
        (pc[i] = "done" /\ fault[i].origin = "lookup") =>
            /\ ret[i].result.status = "error"
            /\ Join(ErrorOf(i)) = "tool_not_found: " \o req[i].tool.s

\* C11: whatever registrations, grants and revocations came before, a
\* check_permission call is denied exactly when the required scope is given, is
\* one of the policy's sensitive scopes and is not held by the agent; a denial
\* carries "Missing required scope: <scope>", and the check that follows
\* grant_scope(agent, scope) for the same agent and scope is allowed.
C11_DeniedIffSensitiveAndMissing ==
    checked # NoCheck =>
        /\ ~checked.answer.allowed <=>
              /\ checked.required # None
              /\ checked.required[1] \in policy.sensitive_scopes
              /\ checked.required[1] \notin checked.held
        /\ ~checked.answer.allowed =>
              Join(checked.answer.reason[1]) =
                  "Missing required scope: " \o checked.required[1]
        /\ checked.answer.allowed => checked.answer.reason = None
        /\ (/\ checked.after.op = "grant"
            /\ checked.after.agent = checked.agent
            /\ checked.required = Some(checked.after.scope)) =>
              checked.answer.allowed

\* An agent was denied a sensitive scope, was granted it, and the same check
\* then succeeded.
C11_Witness ==
    /\ checked # NoCheck
    /\ checked.answer.allowed
    /\ checked.after.op = "grant"
    /\ checked.after.agent = checked.agent
    /\ checked.required = Some(checked.after.scope)
    /\ lastDenied = Op("check", checked.agent, checked.after.scope)
    /\ checked.after.scope \in policy.sensitive_scopes

\* The catalog keeps no scope for a capability (tool_registry.py:40-46); the
\* property is stated for capabilities that require the scope "camera".
ScopeRequired == "camera"

\* C12: in the call_tool pipeline the handler of a capability that requires a
\* sensitive scope is never invoked on behalf of an agent that does not hold
\* that scope.
C12_NoInvocationWithoutScope ==
    \A i \in DOMAIN pc :
        (req[i].via = "bridge" /\ "invoke" \in Range(steps[i])) =>
            \/ ScopeRequired \notin policy.sensitive_scopes
            \/ ScopeRequired \in GrantedSet(req[i].agent_id)

\* A line of the audit file that is a whole record with the given call_id.
AuditRecordFor(call_id) ==
    \E k \in 1..Len(audit_lines) :
        /\ audit_lines[k].text = "json"
        /\ audit_lines[k].value.call_id = call_id

\* C13: every call_tool request of the running engine whose handler was invoked
\* or that was denied has a record with its call_id in the audit sink.
C13_ExecutionsAndDenialsAudited ==
    \A i \in DOMAIN pc :
        (/\ pc[i] = "done"
         /\ req[i].via = "bridge"
         /\ \/ "invoke" \in Range(steps[i])
            \/ RateLimited(i)) =>
            AuditRecordFor(req[i].call_id)

\* The last n entries of a sequence.
LastN(seq, n) ==
    IF n >= Len(seq) THEN seq ELSE SubSeq(seq, Len(seq) - n + 1, Len(seq))

Min(a, b) == IF a <= b THEN a ELSE b

\* C14: after any sequence of append, replay and clear on a ledger of capacity
\* N, the ring holds at most N events, and they are the most recent min(N, k)
\* of the k events added since the last clear, in the order they were added.
C14_RingHoldsMostRecent ==
    /\ Len(events) <= max_events
    /\ Len(events) = Min(max_events, Len(sinceClear))
    /\ events = LastN(sinceClear, max_events)

\* The ring has overflowed through appends and a replay: it holds the newest
\* events only, fewer than were added.
C14_Witness ==
    /\ replayed # NoReplay
    /\ replayed.how = "returned" /\ replayed.result > 0
    /\ Len(sinceClear) > max_events
    /\ Len(events) = max_events
    /\ events[Len(events)] = sinceClear[Len(sinceClear)]
    /\ events[1] # sinceClear[1]

\* The events of the ring that a step keeps: the ring without its d oldest.
Kept(d) == SubSeq(events, d + 1, Len(events))

\* The number of events a step adds to the ring, read from the histories.
Added ==
    IF Len(appended') > Len(appended) THEN Len(appended') - Len(appended)
    ELSE IF Len(sinceClear') > Len(sinceClear)
         THEN Len(sinceClear') - Len(sinceClear)
         ELSE 0

\* The number of events a step has to evict to make room for the added ones.
Evicted ==
    IF Len(events) + Added <= max_events THEN 0
    ELSE Min(Len(events), Len(events) + Added - max_events)

\* C15: a step of the ledger or of the dispatcher leaves every event of the
\* ring as it is; events leave the ring only from its old end, as many as the
\* overflow requires, or all together by clear; a query leaves the ring
\* unchanged.
C15_EventsImmutable ==
    [][/\ \/ events' = <<>>
          \/ /\ Len(events') = Min(max_events, Len(events) + Added)
             /\ SubSeq(events', 1, Len(Kept(Evicted))) = Kept(Evicted)
       /\ answer' # answer =>
             UNCHANGED <<events, max_events, call_id_counter>>]_vars

\* A full ring that holds an event of the dispatcher next to an older one has
\* been queried.
C15_Witness ==
    /\ answer.op = "get_recent"
    /\ Len(events) = max_events
    /\ Len(appended) > max_events
    /\ \E k \in 1..Len(events) : events[k].type = "tool_result"
    /\ answer.result # <<>>

\* Every line of the mirror was written whole.
WholeLines == \A k \in 1..Len(persist_lines) : persist_lines[k].text = "json"

\* The events handed to append_event so far, as JSON gives them back.
AppendedAsJson == [k \in 1..Len(appended) |-> AsJson(appended[k].event)]

\* C16: when a fresh ledger that has room for all k events appended under the
\* mirror replays the mirror file, load_from_jsonl returns k and the ring holds
\* the k events in order with the timestamps and call ids they were given.
C16_ReplayRoundTrip ==
    (/\ replayed # NoReplay
     /\ replayed.fresh
     /\ WholeLines
     /\ Len(appended) <= max_events)
    => /\ replayed = [fresh |-> TRUE] @@ Returned(Len(appended))
       /\ events = AppendedAsJson

\* The last line of the mirror is cut short or unparsable; the lines before it
\* are whole.
TrailingMalformed ==
    /\ persist_lines # <<>>
    /\ persist_lines[Len(persist_lines)].text \in {"partial", "garbled"}
    /\ \A k \in 1..(Len(persist_lines) - 1) : persist_lines[k].text = "json"

\* C17: a replay of a mirror whose last line is malformed returns the number
\* of the well-formed lines before it, and does not raise.
C17_ReplaySkipsTrailingLine ==
    (replayed # NoReplay /\ TrailingMalformed)
    => /\ replayed.how = "returned"
       /\ replayed.result = Len(persist_lines) - 1

\* The last line of the audit file is cut short or unparsable; the lines
\* before it are whole.
AuditTrailingMalformed ==
    /\ audit_lines # <<>>
    /\ audit_lines[Len(audit_lines)].text \in {"partial", "garbled"}
    /\ \A k \in 1..(Len(audit_lines) - 1) : audit_lines[k].text = "json"

\* The records of the whole lines of the audit file, in order.
WellFormedRecords ==
    LET whole == SelectSeq(audit_lines, LAMBDA l : l.text = "json")
    IN  [k \in 1..Len(whole) |-> whole[k].value]

\* C18: a read of an audit file whose last line is unparsable does not raise:
\* load_audit_log returns the well-formed records before that line, and
\* get_agent_stats the counts over them.
C18_AuditReadSkipsTrailingLine ==
    (loaded # NoLoad /\ AuditTrailingMalformed)
    => /\ loaded.how = "returned"
       /\ loaded.op = "load_audit_log" => loaded.result = WellFormedRecords
       /\ loaded.op = "get_agent_stats" =>
             loaded.result = AgentStats(WellFormedRecords, loaded.agent)

\* The message asks for the history with the integer n.
AsksHistory(message, n) ==
    message = TextFrame(RequestWith("get_history", Dict([n |-> IntVal(n)])))

\* C19: the response to a get_history request with n >= 1 carries the n most
\* recent events of the ring, all of them when the ring holds fewer than n.
C19_HistoryIsMostRecent ==
    [][\A i \in Tasks, n \in HistorySizes :
          (/\ Len(exchange'[i]) = Len(exchange[i]) + 1
           /\ AsksHistory(exchange'[i][Len(exchange'[i])].message, n))
          => exchange'[i][Len(exchange'[i])].response =
                [result |-> EventList(LastN(events, n))]]_vars

\* Messages whose handling raises inside _handle_request.
RaisingMessages ==
    { TextFrame(ListVal),
      TextFrame(RequestWith("get_history", Dict([n |-> Str("x")]))) }

\* C20: on every connection, a message that is not JSON is answered with
\* invalid_json, an unknown method with unknown_method, a request whose
\* handling raises with internal_error, and handle_client stays in its loop.
C20_BadMessageKeepsConnection ==
    \A i \in Tasks :
        /\ connected[i]
        /\ ret[i].how = "raised" =>
              (sent[i] # NoReply /\ sent[i].error = <<"internal_error">>)
        /\ \A k \in 1..Len(exchange[i]) :
              LET x == exchange[i][k]
              IN  /\ x.message.json # "value" => x.response = InvalidJson
                  /\ x.message = TextFrame(Request("nope")) =>
                        x.response = [error |-> <<"unknown_method">>,
                                      method |-> Str("nope")]
                  /\ x.message \in RaisingMessages =>
                        /\ "error" \in DOMAIN x.response
                        /\ x.response.error = <<"internal_error">>

\* The agent_id a call_tool request declares, the connection's own otherwise.
DeclaredAgent(i) == Get(request[i], "agent_id", ConnAgent(i))

\* C21: every event the ledger holds for a call_tool request carries the
\* agent_id declared in the params of the request when there is one, and the
\* identifier of the connection otherwise.
C21_EventsCarryDeclaredAgent ==
    \A k \in 1..Len(appended) :
        LET i == appended[k].task
        IN  request[i].t = "dict" =>
               appended[k].event.agent_id = DeclaredAgent(i)

\* Two answered calls with both events each: one that declares an agent_id
\* other than its connection's, one that declares none.
C21_Witness ==
    \E i, j \in Tasks :
        /\ request[i].t = "dict" /\ "agent_id" \in DOMAIN request[i].v
        /\ DeclaredAgent(i) # ConnAgent(i)
        /\ request[j].t = "dict" /\ request[j].v # <<>>
        /\ "agent_id" \notin DOMAIN request[j].v
        /\ \A h \in {i, j} :
              /\ sent[h] # NoReply
              /\ Cardinality({k \in 1..Len(appended) : appended[k].task = h}) = 2

\* C22: in every state of the catalog, and in what its readers returned, the
\* metadata list_tools gives for a registered name is what get_tool_info gives
\* for it, an unregistered name has None and no key in list_tools, and no
\* projection has the handler.
C22_ListAndInfoAgree ==
    /\ \A name \in ToolNames :
          IF name \in DOMAIN _tools
          THEN /\ name \in DOMAIN ListTools(_tools)
               /\ GetToolInfo(_tools, name) = Some(ListTools(_tools)[name])
               /\ "func" \notin DOMAIN ListTools(_tools)[name]
               /\ "func" \notin DOMAIN GetToolInfo(_tools, name)[1]
          ELSE /\ GetToolInfo(_tools, name) = None
               /\ name \notin DOMAIN ListTools(_tools)
    /\ catalog_op.op = "get_tool_info" =>
          catalog_op.result =
             (IF catalog_op.name \in DOMAIN ListTools(_tools)
              THEN Some(ListTools(_tools)[catalog_op.name]) ELSE None)

\* get_tool_info has answered for a name registered a second time with other
\* metadata, while another name is not registered.
C22_Witness ==
    /\ catalog_op.op = "get_tool_info"
    /\ catalog_op.result # None
    /\ catalog_op.result[1].description = "d"
    /\ latest[catalog_op.name] # DefaultRegistration(catalog_op.name)
    /\ catalog_op.name = "echo"
    /\ "ghost" \notin DOMAIN _tools

\* C23: a register with a handler that is not async raises ValueError and the
\* catalog stays as it was; the catalog holds, for every name, the handler and
\* the metadata of the last register with an async handler, which is what call
\* invokes and get_tool_info describes.
C23_RegisterValidatesAndOverwrites ==
    /\ DOMAIN _tools = DOMAIN latest
    /\ \A name \in DOMAIN latest :
          /\ CallIn(_tools, name) = Returned(latest[name].func)
          /\ GetToolInfo(_tools, name) =
                Some([description |-> latest[name].description,
                      schema |-> latest[name].schema,
                      sensitivity |-> latest[name].sensitivity,
                      cost_hint |-> CostHintOrEmpty(latest[name].cost_hint)])
    /\ catalog_op.op = "register" =>
          IF catalog_op.args.func.async
          THEN catalog_op.outcome = Returned(None)
          ELSE /\ catalog_op.outcome.how = "raised"
               /\ catalog_op.outcome.exc.kind = "ValueError"
    /\ catalog_op.op = "call" =>
          catalog_op.outcome = CallIn(_tools, catalog_op.name)

\* A register with a plain function has just been refused for a name that an
\* earlier register had overwritten.
C23_Witness ==
    /\ catalog_op.op = "register"
    /\ ~catalog_op.args.func.async
    /\ catalog_op.name = "echo"
    /\ _tools["echo"].func = CoroutineFunction("f2")

\* The calls of an agent to a capability allowed in the 60 seconds from t on.
AdmittedFrom(agent_id, tool_name, t) ==
    {k \in 1..Len(admitted) :
        /\ admitted[k].agent = agent_id /\ admitted[k].tool = tool_name
        /\ t <= admitted[k].t /\ admitted[k].t < t + QuotaWindow}

\* C24: for an agent whose calls are all gated and recorded, the calls to a
\* capability that check_tool_access allows within any 60 seconds are at most
\* the capability's calls-per-minute limit.
C24_SlidingWindowLimit ==
    \A a \in DOMAIN quotas, k \in 1..Len(admitted) :
        LET tool_name == admitted[k].tool
        IN  tool_name \in DOMAIN quotas[a].tool_rate_limits =>
               Cardinality(AdmittedFrom(a, tool_name, admitted[k].t))
                  <= quotas[a].tool_rate_limits[tool_name]

\* x == y in Python: dicts with the same keys and equal values whatever the
\* order of insertion, sets with the same elements.
RECURSIVE PyEq(_, _)
PyEq(x, y) ==
    /\ x.t = y.t
    /\ x.t = "int" => x.n = y.n
    /\ x.t = "set" => Range(x.order) = Range(y.order)
    /\ x.t = "dict" =>
          /\ {it.k : it \in Range(x.items)} = {it.k : it \in Range(y.items)}
          /\ \A i \in Range(x.items), j \in Range(y.items) :
                i.k = j.k => PyEq(i.v, j.v)

\* C25: two log_tool_call calls whose argument structures are equal up to key
\* order get the same args digest whatever their results are, and two whose
\* result structures are equal up to key order get the same result digest
\* whatever their arguments are.
C25_FingerprintsCanonical ==
    \A k, j \in 1..Len(hashed) :
        /\ PyEq(hashed[k].args, hashed[j].args) =>
              hashed[k].args_hash = hashed[j].args_hash
        /\ PyEq(hashed[k].result, hashed[j].result) =>
              hashed[k].result_hash = hashed[j].result_hash

\* C26: a call that starts while its capability's trailing window holds as many
\* timestamps as the limit returns at once {status: error, error: rate_limited}
\* with its call_id; its handler is not invoked, its result event is the last
\* event appended, after its attempt, and no rate window gains a timestamp.
C26_RejectedCall ==
    [][\A i \in DOMAIN pc :
          (/\ pc[i] = "idle" /\ pc'[i] # "idle"
           /\ HasLimit(_rate_limits, req'[i].tool)
           /\ Cardinality(InWindow(req'[i].tool.s))
                 >= _rate_limits[req'[i].tool.s].limit)
          => /\ pc'[i] = "done"
             /\ ret'[i] = Returned([status |-> "error",
                                    error |-> <<"rate_limited">>,
                                    call_id |-> req'[i].call_id])
             /\ "invoke" \notin Range(steps'[i])
             /\ Len(appended') = Len(appended) + 2
             /\ appended'[Len(appended')].task = i
             /\ appended'[Len(appended') - 1].event.type = "tool_call"
             /\ events'[Len(events')] = appended'[Len(appended')].event
             /\ events'[Len(events')].type = "tool_result"
             /\ events'[Len(events')].call_id = req'[i].call_id
             /\ events'[Len(events')].result = ret'[i].result
             /\ \A n \in DOMAIN _rate_limits :
                   /\ Len(_rate_limits'[n].calls) <= Len(_rate_limits[n].calls)
                   /\ Range(_rate_limits'[n].calls)
                         \subseteq Range(_rate_limits[n].calls)]_vars

\* A call was rejected after an earlier call to the same capability returned ok
\* and some time passed.
C26_Witness ==
    \E i, j \in DOMAIN pc :
        /\ pc[i] = "done" /\ RateLimited(i)
        /\ steps[i] = <<"attempt", "rate_check", "result">>
        /\ started[i] > 0
        /\ j < i /\ ret[j].how = "returned" /\ ret[j].result.status = "ok"
        /\ req[j].tool = req[i].tool

\* The timestamps of a list that lie in the window trailing the clock.
Live(name, calls) ==
    SelectSeq(calls, LAMBDA x : x > now - _rate_limits[name].window)

\* The call of task i ends in this step with status ok.
EndsOk(i) ==
    /\ pc[i] # "done" /\ pc'[i] = "done"
    /\ ret'[i].how = "returned" /\ ret'[i].result.status = "ok"

\* C27: a step of a call appends the clock to the window of the call's
\* capability when the call ends in it with status ok; any other step of a call
\* (a rejection, a timeout, a failed lookup, a handler error, a start) adds no
\* timestamp and leaves the timestamps of the trailing window as they were,
\* and no step of a call touches the trailing window of another capability.
C27_WindowCountsSuccessesOnly ==
    [][pc' # pc =>
         \A n \in DOMAIN _rate_limits :
            IF \E i \in DOMAIN pc : EndsOk(i) /\ req[i].tool = Str(n)
            THEN _rate_limits'[n].calls = Append(_rate_limits[n].calls, now)
            ELSE /\ Live(n, _rate_limits'[n].calls) = Live(n, _rate_limits[n].calls)
                 /\ Len(_rate_limits'[n].calls) <= Len(_rate_limits[n].calls)]_vars

\* Both capabilities have a window; a call to one has succeeded and left its
\* timestamp, a call to the other has ended in a failed lookup and left none.
C27_Witness ==
    /\ DOMAIN _rate_limits = {"echo", "ghost"}
    /\ _rate_limits["echo"].calls # <<>>
    /\ _rate_limits["ghost"].calls = <<>>
    /\ \E i, j \in DOMAIN pc :
          /\ ret[i].how = "returned" /\ ret[i].result.status = "ok"
          /\ pc[j] = "done" /\ fault[j].origin = "lookup"
          /\ req[j].tool = Str("ghost")

\* The appends whose event came without a call_id.
Assigned == {k \in 1..Len(appended) : "call_id" \notin DOMAIN appended[k].given}

\* C28: append_event gives the id event-N to an event that comes without a
\* call_id and to no other, N being the counter after it has gone up by one;
\* the counter changes in no other way, clear() included, so no N is given
\* twice; a call_id or a timestamp that the event comes with is stored as it is.
C28_EventIds ==
    /\ [](\A k, j \in Assigned :
             k # j => appended[k].event.call_id # appended[j].event.call_id)
    /\ [][IF Len(appended') = Len(appended) + 1
          THEN LET a == appended'[Len(appended')]
               IN  /\ events'[Len(events')] = a.event
                   /\ IF "call_id" \in DOMAIN a.given
                      THEN /\ a.event.call_id = a.given.call_id
                           /\ call_id_counter' = call_id_counter
                      ELSE /\ call_id_counter' = call_id_counter + 1
                           /\ a.event.call_id =
                                 "event-" \o ToString(call_id_counter')
                   /\ a.event.timestamp = IF "timestamp" \in DOMAIN a.given
                                          THEN a.given.timestamp ELSE now
                   /\ \A f \in DOMAIN a.given : a.event[f] = a.given[f]
          ELSE call_id_counter' = call_id_counter]_vars

\* After a clear, an event without a call_id got the next id, event-2, and an
\* event that came with a call_id and a timestamp is in the ring as it came.
C28_Witness ==
    /\ Len(appended) > Len(sinceClear)
    /\ Len(events) = 2
    /\ events[1].call_id = "event-2" /\ events[1].timestamp > 5
    /\ events[2] \in StampShapes /\ events[2].call_id = "event-1"

\* C29: get_recent(n) returns the min(n, size) most recent events of the ring,
\* most recent last; get_recent(0) returns no events.
C29_RecentReturnsLastN ==
    [][(answer' # answer /\ answer'.op = "get_recent") =>
          /\ Len(answer'.result) = Min(answer'.args.n, Len(events))
          /\ answer'.result = LastN(events, answer'.args.n)]_vars

\* The events of the ring that match a query's agent or type.
Matching(args) ==
    SelectSeq(events, LAMBDA e :
        IF "agent_id" \in DOMAIN args THEN e.agent_id = args.agent_id
        ELSE e.type = args.event_type)

\* C30: for n >= 1, get_events_for_agent(agent_id, n) and
\* get_events_by_type(type, n) return the min(n, k) most recent of the k events
\* of the ring that match, most recent last, whatever other events the ring
\* holds.
C30_FilteredReturnsLastN ==
    [][(/\ answer' # answer
        /\ answer'.op \in {"get_events_for_agent", "get_events_by_type"}
        /\ answer'.args.n >= 1) =>
          /\ Len(answer'.result)
                = Min(answer'.args.n, Len(Matching(answer'.args)))
          /\ answer'.result = LastN(Matching(answer'.args), answer'.args.n)]_vars

\* The check of agent a made in this step, if one was made.
Asked(a) == access'[a] # access[a] /\ access'[a] # NoAccess

\* The timestamps recorded for a capability that lie in the 60 seconds up to now.
RecordedInWindow(q, tool_name) ==
    {k \in DOMAIN CallsOf(q, tool_name) :
        now - CallsOf(q, tool_name)[k] < QuotaWindow}

\* CPU usage of the current reset interval.
CpuUsedNow(q) == IF now - q.last_reset > ResetInterval THEN 0 ELSE q.cpu_used_ms

\* C31: check_tool_access answers agent_not_registered for an agent without a
\* quota record; else a rate-limit reason when the capability has a limit and
\* the calls recorded for it in the window are not fewer than the limit; else
\* cpu_budget_exceeded when est > 0 and the CPU used plus est exceeds the
\* budget; else (True, None).
C31_AccessDecision ==
    [][\A a \in AgentIds :
          Asked(a) =>
             LET tool_name == access'[a].tool
                 est == access'[a].est
             IN  IF a \notin DOMAIN quotas
                 THEN /\ ~access'[a].allowed
                      /\ access'[a].reason = [reason |-> "agent_not_registered"]
                 ELSE IF /\ tool_name \in DOMAIN quotas[a].tool_rate_limits
                         /\ Cardinality(RecordedInWindow(quotas[a], tool_name))
                               >= quotas[a].tool_rate_limits[tool_name]
                 THEN /\ ~access'[a].allowed
                      /\ access'[a].reason =
                            [reason |-> "rate_limit_exceeded",
                             limit |-> quotas[a].tool_rate_limits[tool_name]]
                 ELSE IF /\ est > 0
                         /\ CpuUsedNow(quotas[a]) + est > quotas[a].cpu_budget_ms
                 THEN /\ ~access'[a].allowed
                      /\ access'[a].reason = [reason |-> "cpu_budget_exceeded"]
                 ELSE /\ access'[a].allowed
                      /\ access'[a].reason = [reason |-> "None"]]_vars

\* C32: the storage usage of an agent never decreases; it changes only in a
\* record_tool_call with a positive storage amount, by that amount; a window
\* reset sets the reset time to the clock, and when it happens in a check it
\* leaves storage as it is, sets CPU usage to zero and clears the timestamps.
C32_StorageMonotone ==
    [][\A a \in DOMAIN quotas :
          /\ a \in DOMAIN quotas'
          /\ quotas'[a].storage_used_mb >= quotas[a].storage_used_mb
          /\ quotas'[a].storage_used_mb # quotas[a].storage_used_mb =>
                /\ quotas'[a].storage_used_mb - quotas[a].storage_used_mb
                      \in Amounts \ {0}
                /\ access'[a] = NoAccess
                /\ CallsOf(quotas'[a], "say") # <<>>
                /\ CallsOf(quotas'[a], "say")[Len(CallsOf(quotas'[a], "say"))]
                      = now
          /\ quotas'[a].last_reset # quotas[a].last_reset =>
                /\ quotas'[a].last_reset = now
                /\ now - quotas[a].last_reset > ResetInterval
                /\ Asked(a) =>
                      /\ quotas'[a].storage_used_mb = quotas[a].storage_used_mb
                      /\ quotas'[a].cpu_used_ms = 0
                      /\ \A n \in QuotaTools : CallsOf(quotas'[a], n) = <<>>]_vars

\* A window reset has happened for an agent with storage in use: CPU usage and
\* timestamps are gone, the storage usage is still there.
C32_Witness ==
    /\ "a1" \in DOMAIN quotas
    /\ quotas["a1"].last_reset > 0
    /\ quotas["a1"].last_reset = now
    /\ quotas["a1"].storage_used_mb >= 2
    /\ quotas["a1"].cpu_used_ms = 0
    /\ access["a1"] # NoAccess

\* The usage of quota record r is above that of q in some counter.
Grown(q, r) ==
    \/ r.cpu_used_ms > q.cpu_used_ms
    \/ r.storage_used_mb > q.storage_used_mb
    \/ \E n \in QuotaTools : Len(CallsOf(r, n)) > Len(CallsOf(q, n))

\* C33: check_tool_access, allowing or denying, never increases the CPU
\* usage, the storage usage or the number of recorded calls of an agent; these
\* grow only in a record_tool_call for that agent, which stamps the clock and
\* leaves the quota record of every other agent unchanged.
C33_AccountingOnCompletion ==
    [][\A a \in DOMAIN quotas :
          /\ access'[a] # NoAccess => ~Grown(quotas[a], quotas'[a])
          /\ Grown(quotas[a], quotas'[a]) =>
                /\ access'[a] = NoAccess
                /\ CallsOf(quotas'[a], "say")[Len(CallsOf(quotas'[a], "say"))]
                      = now
                /\ \A b \in DOMAIN quotas \ {a} : quotas'[b] = quotas[b]]_vars

\* Access was granted to one agent, whose usage is still zero, while the other
\* agent has accounted a call.
C33_Witness ==
    /\ DOMAIN quotas = {"a1", "a2"}
    /\ access["a1"].allowed /\ access["a1"].est = 2
    /\ quotas["a1"].cpu_used_ms = 0
    /\ CallsOf(quotas["a1"], "say") = <<>>
    /\ quotas["a2"].cpu_used_ms = 2 /\ quotas["a2"].storage_used_mb = 2

\* C34: every step that changes the quota table (a record added, a usage
\* counter updated, a call timestamp recorded, a window reset) is taken by an
\* operation that runs inside the engine's lock.
C34_MutationsUnderLock == [][quotas' # quotas => locked']_vars

C36_NotFoundOnlyWhenAbsent ==
    \A i \in DOMAIN pc :
        (pc[i] = "done" /\ ret[i].how = "returned"
                        /\ ret[i].result.status = "error") =>
            /\ Head(ErrorOf(i)) = "tool_not_found" => fault[i].origin = "lookup"
            /\ (fault[i].origin = "handler" /\ fault[i].exc.kind = "KeyError") =>
                  Head(ErrorOf(i)) = "KeyError"

\* C37: revocation is effective for every agent: the check_permission(a, _, s)
\* that follows revoke_scope(a, s) for a sensitive scope s, with no grant or
\* registration in between, is denied, whether or not the evaluator had seen a
\* before and whatever the policy's default scopes are.
C37_RevocationEffective ==
    (/\ checked # NoCheck
     /\ checked.after.op = "revoke"
     /\ checked.after.agent = checked.agent
     /\ checked.required = Some(checked.after.scope)
     /\ checked.after.scope \in policy.sensitive_scopes) =>
        ~checked.answer.allowed

\* C38: after any interleaving of append, replay and clear, no two events in
\* the ring carry the same ledger-assigned id event-N; an id given by append
\* after a replay is not the id of a replayed event.
C38_RingIdsDistinct ==
    \A k, j \in 1..Len(events) :
        (/\ k # j
         /\ \E n \in 1..MaxLines :
                events[k].call_id = "event-" \o ToString(n)) =>
            events[k].call_id # events[j].call_id

\* C39: on one connection every received message gets exactly one response,
\* sent before the next message is processed: a call_tool request that
\* handle_client has finished with has its response, one that is still being
\* handled has none yet, and no other message of the connection is answered
\* in between.
C39_OneResponsePerMessage ==
    /\ [](\A i \in Tasks :
            /\ (pc[i] = "done" /\ req[i].via = "bridge") => sent[i] # NoReply
            /\ pc[i] \in {"dispatched", "running"} => sent[i] = NoReply)
    /\ [][\A i \in Tasks :
            pc[i] \in {"dispatched", "running"} => exchange'[i] = exchange[i]]_vars

\* C40: for an agent whose every call is gated by check_tool_access and
\* accounted by record_tool_call, the accumulated storage usage never exceeds
\* the agent's storage quota.
C40_StorageWithinQuota ==
    \A a \in DOMAIN quotas :
        quotas[a].storage_used_mb <= quotas[a].storage_quota_mb

====
